---- MODULE Spec2Model ----
(***************************************************************************)
(* chirpy: the authentication and session-token subsystem.                 *)
(*                                                                         *)
(* The specifications of this module:                                      *)
(*   SpecJWT  the auth package on its own (MakeJWT / ValidateJWT), driven  *)
(*            the way auth_test.go drives it, with a wall clock;            *)
(*   SpecSigner  ValidateJWT over tokens a holder of a secret can sign;    *)
(*   Spec     the HTTP handlers (users, login, refresh, revoke) over the   *)
(*            users and refresh_tokens tables, with a wall clock;          *)
(*   SpecHeader  auth.GetBearerToken on its own, over header values;       *)
(*   SpecAPI  the handlers behind an access token (chirps, profile         *)
(*            update), with a clock that outlives an access token;         *)
(*   SpecChirps  chirps of every kind of text, posted and deleted;         *)
(*   SpecKinds   access and refresh tokens presented to every endpoint;    *)
(*   SpecAccounts  registration, profile update and login, with every      *)
(*            password;                                                    *)
(*   SpecRace refresh and revoke handled concurrently, a store call at a   *)
(*            time;                                                        *)
(*   SpecAdmin   every endpoint, reset and the webhook included;           *)
(*   SpecHits    the hit counter under concurrent /app/ requests and       *)
(*            resets;                                                      *)
(*   SpecSession a client that keeps its access token while the store      *)
(*            changes.                                                     *)
(*                                                                         *)
(* Time is counted in ticks; a second is TicksPerSecond ticks, so that     *)
(* instants between two whole seconds exist.                               *)
(***************************************************************************)
EXTENDS Integers, Sequences, FiniteSets, TLC

VARIABLES
    now,            \* wall clock (time.Now()), in ticks
    tkn,            \* SpecJWT: the token made by the last MakeJWT call, with its arguments
    vres,           \* SpecJWT, SpecHeader: the last call of the auth package and what it returned
    users,          \* Spec: rows of table users
    refresh_tokens, \* Spec: rows of table refresh_tokens
    chirps,         \* rows of table chirps
    inflight,       \* SpecRace: the requests being handled, each with its handler's locals
    req,            \* Spec: the request handled last
    resp,           \* Spec: the response written to it
    logged,         \* Spec: the line the handler logged for it (server side only)
    apiConfig,      \* the server's apiConfig: platform and fileserverHits
    appRequests     \* history: /app/ requests counted since the last reset that succeeded

vars == <<now, tkn, vres, users, refresh_tokens, chirps, inflight, req, resp, logged,
          apiConfig, appRequests>>
jwtVars == <<tkn, vres>>
adminVars == <<apiConfig, appRequests>>
srvVars == <<users, refresh_tokens, chirps, inflight, req, resp, logged, adminVars>>

----------------------------------------------------------------------------
(* Bounds of the model *)

TicksPerSecond == 2     \* clock resolution: ticks in one second
MaxJWTNow == 9          \* SpecJWT: the clock stops here
MaxLifetime == 5        \* SpecJWT: expiresIn ranges over 1..MaxLifetime ticks
MaxExtraTicks == 1      \* Spec: the clock ticks at most this many times in a row

(* Small value sets *)

\* main: the apiConfig of a server started with PLATFORM set to platform; the
\* zero value of fileserverHits is 0.
Platforms == {"dev", "prod"}
NewConfig(platform) == [platform |-> platform, fileserverHits |-> 0]

UserIDs == {"u1", "u2"}
Secrets == {"foobar", "other"}
NilUUID == "uuid.Nil"

----------------------------------------------------------------------------
(* internal/auth: the access-token codec *)

\* jwt.NumericDate is serialised with jwt.TimePrecision = time.Second:
\* MarshalJSON truncates the instant to a whole second.
Truncate(t) == (t \div TicksPerSecond) * TicksPerSecond

\* uuid.UUID.String(): the canonical text of an id.
UUIDString(u) == [form |-> "canonical", id |-> u]

\* Subjects a token string can carry: canonical ids, and text that is no id.
Subjects == {UUIDString(u) : u \in UserIDs} \cup {[form |-> "garbage", id |-> "x"]}

\* uuid.Parse: the id of a well-formed text, an error otherwise.
UUIDParse(s) ==
    IF s.form = "canonical" /\ s.id \in UserIDs
    THEN [id |-> s.id, err |-> "nil"]
    ELSE [id |-> NilUUID, err |-> "invalid UUID"]

\* The algorithms a token header can declare.
Algs == {"HS256", "HS384", "none"}

\* HMAC over the signing string (header "." claims), under the key: modelled
\* as a perfect MAC, equal exactly when algorithm, key and signing string are.
HMAC(alg, key, hdr, claims) == <<alg, key, hdr, claims>>

\* A token string: three base64url segments. The signature segment of an
\* HMAC-SHA256 is 43 characters for 32 bytes: the last character carries four
\* bits of the MAC and two bits that encode nothing (sigTail). The encoder
\* writes them as 0.
Malformed == [malformed |-> TRUE]

MakeJWT_noAdd(userID, tokenSecret, expiresIn, t) ==
    LET hdr == [alg |-> "HS256", typ |-> "JWT"]
        claims == [iss |-> "chirpy", sub |-> UUIDString(userID),
                   iat |-> Truncate(t), exp |-> Truncate(t)]
    IN  [hdr |-> hdr, claims |-> claims,
         sig |-> HMAC("HS256", tokenSecret, hdr, claims), sigTail |-> 0]

\* auth.MakeJWT: claims {Issuer chirpy, IssuedAt now, ExpiresAt now+expiresIn,
\* Subject userID.String()}, signed HS256 with the secret. t is time.Now().
MakeJWT(userID, tokenSecret, expiresIn, t) ==
    LET hdr == [alg |-> "HS256", typ |-> "JWT"]
        claims == [iss |-> "chirpy", sub |-> UUIDString(userID),
                   iat |-> Truncate(t), exp |-> Truncate(t + expiresIn)]
    IN  [hdr |-> hdr, claims |-> claims,
         sig |-> HMAC("HS256", tokenSecret, hdr, claims), sigTail |-> 0]

ParseWithClaims_grace(tokenString, tokenSecret, t) ==
    IF "hdr" \notin DOMAIN tokenString THEN "token is malformed"
    ELSE IF tokenString.hdr.alg \notin {"HS256", "HS384"}
         THEN "token is unverifiable"
    ELSE IF tokenString.sig # HMAC(tokenString.hdr.alg, tokenSecret,
                                   tokenString.hdr, tokenString.claims)
         THEN "signature is invalid"
    ELSE IF t > tokenString.claims.exp THEN "token is expired"
    ELSE "nil"

\* jwt.ParseWithClaims with a key function that returns []byte(tokenSecret)
\* whatever the header says, and a default parser (no WithValidMethods, no
\* WithStrictDecoding, no leeway): the error, or "nil".
\*   - a string that is not three segments (any text that is no token) is
\*     malformed;
\*   - the signing method is looked up from the header's alg; an HMAC method
\*     takes the []byte key, "none" refuses it;
\*   - the signature segment is decoded by base64.RawURLEncoding, which
\*     ignores the bits of the last character that encode nothing;
\*   - the claims are valid while now is before exp.
ParseWithClaims(tokenString, tokenSecret, t) ==
    IF "hdr" \notin DOMAIN tokenString THEN "token is malformed"
    ELSE IF tokenString.hdr.alg \notin {"HS256", "HS384"}
         THEN "token is unverifiable"
    ELSE IF tokenString.sig # HMAC(tokenString.hdr.alg, tokenSecret,
                                   tokenString.hdr, tokenString.claims)
         THEN "signature is invalid"
    ELSE IF ~(t < tokenString.claims.exp) THEN "token is expired"
    ELSE "nil"

\* A ValidateJWT that looks the subject up in the users table.
ValidateJWT_knownUser(tokenString, tokenSecret, t) ==
    LET err == ParseWithClaims(tokenString, tokenSecret, t)
    IN  IF err # "nil" THEN [userID |-> NilUUID, err |-> err]
        ELSE LET p == UUIDParse(tokenString.claims.sub)
             IN  IF p.err = "nil" /\ \A u \in users : u.id # p.id
                 THEN [userID |-> NilUUID, err |-> "user not found"]
                 ELSE [userID |-> p.id, err |-> p.err]

\* auth.ValidateJWT: the user id of the subject, or uuid.Nil and the error.
ValidateJWT(tokenString, tokenSecret, t) ==
    LET err == ParseWithClaims(tokenString, tokenSecret, t)
    IN  IF err # "nil" THEN [userID |-> NilUUID, err |-> err]
        ELSE LET p == UUIDParse(tokenString.claims.sub)
             IN  [userID |-> p.id, err |-> p.err]

----------------------------------------------------------------------------
(* SpecJWT: the auth package driven as its tests drive it *)

NoToken == [made |-> FALSE]
NoCall == [called |-> FALSE]

\* The token strings that differ from s in one place: another header
\* algorithm, another subject, another expiry, another MAC, other bits in the
\* last character of the signature, or a string that is no token at all.
Alterations(s) ==
    ( {[s EXCEPT !.hdr.alg = a] : a \in Algs}
      \cup {[s EXCEPT !.claims.sub = x] : x \in Subjects}
      \cup {[s EXCEPT !.claims.exp = e] : e \in {s.claims.exp + TicksPerSecond,
                                                  s.claims.exp + 2 * TicksPerSecond}}
      \cup {[s EXCEPT !.sig = HMAC("HS256", k, s.hdr, s.claims)] : k \in Secrets}
      \cup {[s EXCEPT !.sigTail = b] : b \in 0..3}
      \cup {Malformed} ) \ {s}

InitJWT ==
    /\ now \in 0..(TicksPerSecond - 1)
    /\ tkn = NoToken
    /\ vres = NoCall
    /\ users = {}
    /\ refresh_tokens = {}
    /\ chirps = {}
    /\ inflight = <<>>
    /\ req = [endpoint |-> "none"]
    /\ resp = [status |-> 0, body |-> ""]
    /\ logged = ""
    /\ apiConfig = NewConfig("dev")
    /\ appRequests = 0

\* TestMakeJwt / TestExpiredToken, first half: make a token.
TestMake ==
    /\ tkn = NoToken
    /\ \E u \in UserIDs, s \in Secrets, L \in 1..MaxLifetime :
          tkn' = [made |-> TRUE, userID |-> u, secret |-> s, expiresIn |-> L,
                  issuedAt |-> now, str |-> MakeJWT(u, s, L, now)]
    /\ UNCHANGED <<now, vres, srvVars>>

\* Second half: validate the token, or an altered one, under some secret.
TestValidate ==
    /\ tkn # NoToken
    /\ \E ts \in {tkn.str} \cup Alterations(tkn.str), s \in Secrets :
          vres' = [called |-> TRUE, tokenString |-> ts, secret |-> s, at |-> now,
                   out |-> ValidateJWT(ts, s, now)]
    /\ UNCHANGED <<now, tkn, srvVars>>

\* time.Sleep: the clock advances.
JWTTick ==
    /\ now < MaxJWTNow
    /\ now' = now + 1
    /\ UNCHANGED <<tkn, vres, srvVars>>

NextJWT == TestMake \/ TestValidate \/ JWTTick

SpecJWT == InitJWT /\ [][NextJWT]_vars

----------------------------------------------------------------------------
(* SpecSigner: a holder of a secret signs claims of its own choosing *)

\* The HMAC signing methods golang-jwt registers that the model tells apart.
SignerAlgs == {"HS256", "HS384"}

\* jwt.NewWithClaims(method, claims).SignedString(key): the token string of
\* the claims under the method alg, with the MAC of that method.
SignedString(alg, key, claims) ==
    LET hdr == [alg |-> alg, typ |-> "JWT"]
    IN  [hdr |-> hdr, claims |-> claims,
         sig |-> HMAC(alg, key, hdr, claims), sigTail |-> 0]

\* Someone who holds a secret signs a token: any HMAC method, any subject.
SignerMake ==
    /\ tkn = NoToken
    /\ \E alg \in SignerAlgs, key \in Secrets, sub \in Subjects, L \in 1..MaxLifetime :
          tkn' = [made |-> TRUE, alg |-> alg, sub |-> sub, secret |-> key,
                  expiresIn |-> L, issuedAt |-> now,
                  str |-> SignedString(alg, key,
                              [iss |-> "chirpy", sub |-> sub, iat |-> Truncate(now),
                               exp |-> Truncate(now + L)])]
    /\ UNCHANGED <<now, vres, srvVars>>

\* The token is presented to ValidateJWT under some secret.
SignerValidate ==
    /\ tkn # NoToken
    /\ \E s \in Secrets :
          vres' = [called |-> TRUE, tokenString |-> tkn.str, secret |-> s, at |-> now,
                   out |-> ValidateJWT(tkn.str, s, now)]
    /\ UNCHANGED <<now, tkn, srvVars>>

NextSigner == SignerMake \/ SignerValidate \/ JWTTick

SpecSigner == InitJWT /\ [][NextSigner]_vars

----------------------------------------------------------------------------
(* internal/auth: passwords and the Authorization header *)

Emails == {"a@x", "b@x"}
Passwords == {"pw1", "pw2"}

\* The hashed_password of a row written before passwords existed (the earlier
\* handlerUsers stored an email only): no argon2id hash string.
UnsetHash == [alg |-> "unset"]

\* auth.HashPassword: argon2id.CreateHash. The hash string carries the
\* algorithm and what the password is checked against.
HashPassword(password) == [alg |-> "argon2id", pw |-> password]

\* auth.CheckPassword: argon2id.ComparePasswordAndHash. An error for a string
\* that is no argon2id hash, otherwise whether the password matches.
CheckPassword(password, hash) ==
    IF hash.alg # "argon2id" THEN [match |-> FALSE, err |-> "invalid hash"]
    ELSE [match |-> (hash.pw = password), err |-> "nil"]

\* An Authorization header value is a sequence of words and blanks; the empty
\* sequence is the empty (or absent) header. A word is a scheme or other text,
\* or a credential (a refresh-token string, an access-token string).
Word(txt) == [txt |-> txt]
Blank == Word(" ")

Tab == Word("\t")
IsSpace(w) == w \in {Blank, Tab}

\* Words written with no white space between them read as one longer word.
Join(run) == IF Len(run) = 1 THEN run[1] ELSE [joined |-> run]

\* strings.Fields: the maximal runs of text between white space, in order.
RECURSIVE FieldsFrom(_, _, _)
FieldsFrom(s, i, run) ==
    LET field == IF run = <<>> THEN <<>> ELSE <<Join(run)>>
    IN  IF i > Len(s) THEN field
        ELSE IF IsSpace(s[i]) THEN field \o FieldsFrom(s, i + 1, <<>>)
        ELSE FieldsFrom(s, i + 1, Append(run, s[i]))

Fields(authHeader) == FieldsFrom(authHeader, 1, <<>>)

\* A GetBearerToken that takes the scheme in any case.
GetBearerToken_anyCase(authHeader) ==
    IF authHeader = <<>> THEN [token |-> Word(""), err |-> "empty Authorization header"]
    ELSE IF Len(Fields(authHeader)) # 2
         THEN [token |-> Word(""), err |-> "malformed Authorization header"]
    ELSE IF Fields(authHeader)[1] \notin {Word("Bearer"), Word("bearer")}
         THEN [token |-> Word(""),
               err |-> "malformed Authorization header, expected Bearer"]
    ELSE [token |-> Fields(authHeader)[2], err |-> "nil"]

\* auth.GetBearerToken: the second of exactly two fields whose first is Bearer.
GetBearerToken(authHeader) ==
    IF authHeader = <<>> THEN [token |-> Word(""), err |-> "empty Authorization header"]
    ELSE IF Len(Fields(authHeader)) # 2
         THEN [token |-> Word(""), err |-> "malformed Authorization header"]
    ELSE IF Fields(authHeader)[1] # Word("Bearer")
         THEN [token |-> Word(""),
               err |-> "malformed Authorization header, expected Bearer"]
    ELSE [token |-> Fields(authHeader)[2], err |-> "nil"]

----------------------------------------------------------------------------
(* SpecHeader: GetBearerToken over the values an Authorization header takes *)

MaxHeaderWords == 4     \* SpecHeader: a header value has at most this many words

\* What a header value is written from: schemes, white space, credentials.
HeaderWords ==
    {Word("Bearer"), Word("bearer"), Word("Token"), Blank, Tab, [hex |-> "r1"]}

RECURSIVE SeqsUpTo(_, _)
SeqsUpTo(S, n) ==
    IF n = 0 THEN {<<>>}
    ELSE LET shorter == SeqsUpTo(S, n - 1)
         IN  shorter \cup {Append(q, w) : q \in shorter, w \in S}

HeaderValues == SeqsUpTo(HeaderWords, MaxHeaderWords)

\* A request arrives with some Authorization header (the empty value when it
\* has none) and GetBearerToken is called on it.
CallGetBearerToken ==
    /\ vres = NoCall
    /\ \E authHeader \in HeaderValues :
          vres' = [called |-> TRUE, authHeader |-> authHeader,
                   out |-> GetBearerToken(authHeader)]
    /\ UNCHANGED <<now, tkn, srvVars>>

InitHeader == InitJWT /\ now = 0

NextHeader == CallGetBearerToken

SpecHeader == InitHeader /\ [][NextHeader]_vars

----------------------------------------------------------------------------
(* The store: tables users and refresh_tokens *)

NULL == [valid |-> FALSE]
At(t) == [valid |-> TRUE, time |-> t]

\* The refresh-token strings the random source can return.
TokenStrings == {[hex |-> "r1"], [hex |-> "r2"]}

\* The signing secret of the server (a.secret, from SECRET).
ServiceSecret == "foobar"

\* time.Hour, and the lifetime of an access token, in ticks.
SecondsPerHour == 3600
AccessTokenLifetime == 1 * SecondsPerHour * TicksPerSecond

\* The lifetime the store gives a refresh token, in ticks.
RefreshTokenDays == 60
RefreshTokenLifetime == RefreshTokenDays * 24 * SecondsPerHour * TicksPerSecond

\* GetUserByEmail: the rows with that email (LIMIT 1: emails are unique).
GetUserByEmail(email) == {u \in users : u.email = email}

\* CreateUser: INSERT INTO users ... RETURNING *. The email is unique.
CreateUser(id, email, hashed_password) ==
    IF \E u \in users : u.email = email \/ u.id = id
    THEN [err |-> "unique violation", users |-> users]
    ELSE [err |-> "nil",
          users |-> users \cup {[id |-> id, email |-> email,
                                 hashed_password |-> hashed_password,
                                 is_chirpy_red |-> FALSE]}]

\* An UPDATE that leaves the stored hash alone.
UpdateUserEmailAndPass_emailOnly(id, email, hashed_password) ==
    IF ~(\E u \in users : u.id = id) THEN [err |-> "no rows", users |-> users]
    ELSE IF \E u \in users : u.id # id /\ u.email = email
         THEN [err |-> "unique violation", users |-> users]
    ELSE [err |-> "nil",
          users |-> {IF u.id = id THEN [u EXCEPT !.email = email] ELSE u :
                        u \in users}]

\* An UPDATE whose WHERE clause does not hold the password back: it sets the
\* hash of every row.
UpdateUserEmailAndPass_everyRow(id, email, hashed_password) ==
    IF ~(\E u \in users : u.id = id) THEN [err |-> "no rows", users |-> users]
    ELSE IF \E u \in users : u.id # id /\ u.email = email
         THEN [err |-> "unique violation", users |-> users]
    ELSE [err |-> "nil",
          users |-> {IF u.id = id
                     THEN [u EXCEPT !.email = email,
                                    !.hashed_password = hashed_password]
                     ELSE [u EXCEPT !.hashed_password = hashed_password] :
                        u \in users}]

\* UpdateUserEmailAndPass: UPDATE users SET email, hashed_password WHERE id.
\* No row (:one) and a taken email are errors.
UpdateUserEmailAndPass(id, email, hashed_password) ==
    IF ~(\E u \in users : u.id = id) THEN [err |-> "no rows", users |-> users]
    ELSE IF \E u \in users : u.id # id /\ u.email = email
         THEN [err |-> "unique violation", users |-> users]
    ELSE [err |-> "nil",
          users |-> {IF u.id = id
                     THEN [u EXCEPT !.email = email,
                                    !.hashed_password = hashed_password]
                     ELSE u : u \in users}]

\* CreateRefreshToken: insert {token, user_id, expires_at = now + lifetime,
\* revoked_at = NULL}. The token is the primary key.
CreateRefreshToken(token, user_id, t) ==
    IF \E r \in refresh_tokens : r.token = token
    THEN [err |-> "unique violation", refresh_tokens |-> refresh_tokens]
    ELSE [err |-> "nil",
          refresh_tokens |-> refresh_tokens \cup
              {[token |-> token, user_id |-> user_id,
                expires_at |-> t + RefreshTokenLifetime, revoked_at |-> NULL]}]

\* A lookup that also finds the sessions of the user an access token names.
GetRefreshToken_orOfSubject(token) ==
    {r \in refresh_tokens :
        \/ r.token = token
        \/ /\ "claims" \in DOMAIN token
           /\ token.claims.sub = [form |-> "canonical", id |-> r.user_id]}

\* GetRefreshToken: find by token.
GetRefreshToken(token) == {r \in refresh_tokens : r.token = token}

\* Other UPDATEs the revoke query could have been: one that revokes every
\* token of the owner, one that sets revoked_at whatever it was.
RevokeRefreshToken_allOfUser(token, t) ==
    {IF (\E o \in refresh_tokens : o.token = token /\ o.user_id = r.user_id)
        /\ ~r.revoked_at.valid
     THEN [r EXCEPT !.revoked_at = At(t)]
     ELSE r : r \in refresh_tokens}

RevokeRefreshToken_overwrite(token, t) ==
    {IF r.token = token THEN [r EXCEPT !.revoked_at = At(t)] ELSE r :
        r \in refresh_tokens}

\* RevokeRefreshToken: set revoked_at = now if not already revoked. No row is
\* not an error.
RevokeRefreshToken(token, t) ==
    {IF r.token = token /\ ~r.revoked_at.valid
     THEN [r EXCEPT !.revoked_at = At(t)]
     ELSE r : r \in refresh_tokens}

----------------------------------------------------------------------------
(* The handlers. Each writes one response: [status, body]. *)

Bare(status) == [status |-> status, body |-> ""]

\* A user object that is the whole row.
User_wholeRow(dbUser) == dbUser

\* The user object of a response.
User(dbUser) ==
    [id |-> dbUser.id, email |-> dbUser.email, is_chirpy_red |-> dbUser.is_chirpy_red]

\* handlerUsers: POST /api/users.
UsersOutcome(badJSON, email, password, id) ==
    IF badJSON THEN [resp |-> Bare(500), users |-> users]
    ELSE IF password = "" THEN [resp |-> Bare(500), users |-> users]
    ELSE LET c == CreateUser(id, email, HashPassword(password))
         IN  IF c.err # "nil" THEN [resp |-> Bare(400), users |-> users]
             ELSE [resp |-> [status |-> 201,
                             body |-> User(CHOOSE u \in c.users : u.id = id)],
                   users |-> c.users]

\* The request bodies: JSON that does not decode, or an email and a password.
Bodies(passwords) ==
    {[badJSON |-> TRUE, email |-> "", password |-> ""]}
        \cup {[badJSON |-> FALSE, email |-> e, password |-> p] :
                 e \in Emails, p \in passwords}

\* The bodies Spec's clients send. Registration and profile update send the
\* first password (or none); login tries every password.
FirstPassword == "pw1"
UsersBodies == Bodies({FirstPassword, ""})
LoginBodies == Bodies(Passwords)
PutUsersBodies == Bodies({FirstPassword})

\* handlerUsers over the request bodies a specification's clients send. id is
\* what gen_random_uuid() draws.
UsersWith(bodies) ==
    \E body \in bodies, id \in UserIDs :
        LET badJSON == body.badJSON
            email == body.email
            password == body.password
        IN  \E out \in {UsersOutcome(badJSON, email, password, id)} :
            /\ req' = [endpoint |-> "POST /api/users", badJSON |-> badJSON,
                       email |-> email, password |-> password]
            /\ resp' = out.resp
            /\ users' = out.users
            /\ logged' = ""
            /\ UNCHANGED <<refresh_tokens, now, jwtVars, adminVars, chirps, inflight>>

handlerUsers == UsersWith(UsersBodies)

\* handlerLogin: the three refusals.
LoginNoUserResponse_distinct ==
    [status |-> 404, body |-> "No such user"]

LoginNoUserResponse ==
    [status |-> 401, body |-> "Incorrect email or password"]

LoginBadHashResponse ==
    [status |-> 401, body |-> "Incorrect email or password"]

LoginMismatchResponse ==
    [status |-> 401, body |-> "Incorrect email or password"]

\* handlerLogin, after the insert: the answer to a failed insert.
LoginInsertFailed_ignored(dbUser, token, refreshToken) ==
    [status |-> 200,
     body |-> [id |-> dbUser.id, email |-> dbUser.email,
               is_chirpy_red |-> dbUser.is_chirpy_red,
               token |-> token, refresh_token |-> refreshToken]]

LoginInsertFailed(dbUser, token, refreshToken) == Bare(500)

\* handlerLogin, the stored record: whose it is.
LoginTokenOwner(dbUser, email) == dbUser.id

\* handlerLogin: POST /api/login. refreshToken is what auth.MakeRefreshToken
\* drew from the random source.
LoginOutcome(badJSON, email, password, refreshToken) ==
    LET found == GetUserByEmail(email)
        same == [refresh_tokens |-> refresh_tokens]
    IN
    IF badJSON
    THEN same @@ [resp |-> Bare(500), logged |-> "unable to decode JSON"]
    ELSE IF found = {}
    THEN same @@ [resp |-> LoginNoUserResponse,
                  logged |-> "unable to find user by email"]
    ELSE LET dbUser == CHOOSE u \in found : TRUE
             chk == CheckPassword(password, dbUser.hashed_password)
             token == MakeJWT(dbUser.id, ServiceSecret, AccessTokenLifetime, now)
             ins == CreateRefreshToken(refreshToken, LoginTokenOwner(dbUser, email), now)
         IN
         IF chk.err # "nil"
         THEN same @@ [resp |-> LoginBadHashResponse,
                       logged |-> "uanble to check password"]
         ELSE IF ~chk.match
         THEN same @@ [resp |-> LoginMismatchResponse, logged |-> ""]
         ELSE IF ins.err # "nil"
         THEN same @@ [resp |-> LoginInsertFailed(dbUser, token, refreshToken),
                       logged |-> "unable to create refresh token"]
         ELSE [refresh_tokens |-> ins.refresh_tokens,
               resp |-> [status |-> 200,
                         body |-> [id |-> dbUser.id, email |-> dbUser.email,
                                   is_chirpy_red |-> dbUser.is_chirpy_red,
                                   token |-> token,
                                   refresh_token |-> refreshToken]],
               logged |-> ""]

\* handlerLogin over the request bodies a specification's clients send.
LoginWith(bodies) ==
    \E body \in bodies, refreshToken \in TokenStrings :
        LET badJSON == body.badJSON
            email == body.email
            password == body.password
        IN  \E out \in {LoginOutcome(badJSON, email, password, refreshToken)} :
            /\ req' = [endpoint |-> "POST /api/login", badJSON |-> badJSON,
                       email |-> email, password |-> password]
            /\ resp' = out.resp
            /\ refresh_tokens' = out.refresh_tokens
            /\ logged' = out.logged
            /\ UNCHANGED <<users, now, jwtVars, adminVars, chirps, inflight>>

handlerLogin == LoginWith(LoginBodies)

\* handlerRefresh: is the record revoked? is it expired?
RefreshRevoked_never(dbTokenRecord) == FALSE

RefreshRevoked(dbTokenRecord) == dbTokenRecord.revoked_at.valid

RefreshExpired(dbTokenRecord, t) == dbTokenRecord.expires_at < t

\* handlerRefresh: whose access token it makes.
RefreshSubject_other(dbTokenRecord) ==
    CHOOSE u \in UserIDs : u # dbTokenRecord.user_id

RefreshSubject(dbTokenRecord) == dbTokenRecord.user_id

\* handlerRefresh: what it writes to the store (nothing).
RefreshedStore_revoking(dbTokenRecord) ==
    RevokeRefreshToken(dbTokenRecord.token, now)

RefreshedStore(dbTokenRecord) == refresh_tokens

\* handlerRefresh, once GetRefreshToken has returned: found is the row it
\* returned, or nothing (an error).
RefreshFound(found) ==
    LET same == [refresh_tokens |-> refresh_tokens]
    IN
    IF found = {}
    THEN same @@ [resp |-> Bare(401), logged |-> "unable to get refresh token"]
    ELSE LET dbTokenRecord == CHOOSE r \in found : TRUE
         IN
         IF RefreshRevoked(dbTokenRecord)
         THEN same @@ [resp |-> Bare(401), logged |-> "revoked refresh token"]
         ELSE IF RefreshExpired(dbTokenRecord, now)
         THEN same @@ [resp |-> Bare(401), logged |-> "expired refresh token"]
         ELSE [refresh_tokens |-> RefreshedStore(dbTokenRecord),
               resp |-> [status |-> 200,
                         body |-> [token |-> MakeJWT(RefreshSubject(dbTokenRecord),
                                                     ServiceSecret,
                                                     AccessTokenLifetime, now)]],
               logged |-> ""]

\* handlerRefresh: POST /api/refresh.
RefreshOutcome(authHeader) ==
    LET bearer == GetBearerToken(authHeader)
    IN  IF bearer.err # "nil"
        THEN [refresh_tokens |-> refresh_tokens, resp |-> Bare(401),
              logged |-> "unable to get bearer token"]
        ELSE RefreshFound(GetRefreshToken(bearer.token))

\* The Authorization headers a client sends with a refresh-token string: of
\* the right shape, of another scheme, or none.
UnknownTokenString == [hex |-> "zz"]
Bearer(credential) == <<Word("Bearer"), Blank, credential>>
RefreshHeaders ==
    {Bearer(c) : c \in TokenStrings \cup {UnknownTokenString}}
        \cup {<<Word("Token"), Blank, [hex |-> "r1"]>>, <<>>}

\* handlerRefresh over the headers a specification's clients send.
RefreshWith(headers) ==
    \E authHeader \in headers :
        \E out \in {RefreshOutcome(authHeader)} :
            /\ req' = [endpoint |-> "POST /api/refresh", authHeader |-> authHeader]
            /\ resp' = out.resp
            /\ refresh_tokens' = out.refresh_tokens
            /\ logged' = out.logged
            /\ UNCHANGED <<users, now, jwtVars, adminVars, chirps, inflight>>

handlerRefresh == RefreshWith(RefreshHeaders)

\* A revoke handler that tells an unknown token from a stored one.
RevokeOutcome_unknown404(authHeader) ==
    LET bearer == GetBearerToken(authHeader)
    IN  IF bearer.err # "nil"
        THEN [refresh_tokens |-> refresh_tokens, resp |-> Bare(401),
              logged |-> "unable to get bearer token"]
        ELSE IF GetRefreshToken(bearer.token) = {}
        THEN [refresh_tokens |-> refresh_tokens, resp |-> Bare(404),
              logged |-> "unable to revoke"]
        ELSE [refresh_tokens |-> RevokeRefreshToken(bearer.token, now),
              resp |-> Bare(204), logged |-> ""]

\* handlerRevoke: POST /api/revoke.
RevokeOutcome(authHeader) ==
    LET bearer == GetBearerToken(authHeader)
    IN  IF bearer.err # "nil"
        THEN [refresh_tokens |-> refresh_tokens, resp |-> Bare(401),
              logged |-> "unable to get bearer token"]
        ELSE [refresh_tokens |-> RevokeRefreshToken(bearer.token, now),
              resp |-> Bare(204), logged |-> ""]

\* handlerRevoke over the headers a specification's clients send.
RevokeWith(headers) ==
    \E authHeader \in headers :
        \E out \in {RevokeOutcome(authHeader)} :
            /\ req' = [endpoint |-> "POST /api/revoke", authHeader |-> authHeader]
            /\ resp' = out.resp
            /\ refresh_tokens' = out.refresh_tokens
            /\ logged' = out.logged
            /\ UNCHANGED <<users, now, jwtVars, adminVars, chirps, inflight>>

handlerRevoke == RevokeWith(RefreshHeaders)

\* handlerPutUsers: PUT /api/users. Every failure is a bare 401.
PutUsersOutcome(authHeader, badJSON, email, password) ==
    LET bearer == GetBearerToken(authHeader)
        v == ValidateJWT(bearer.token, ServiceSecret, now)
        upd == UpdateUserEmailAndPass(v.userID, email, HashPassword(password))
    IN
    IF bearer.err # "nil"
    THEN [users |-> users, resp |-> Bare(401), logged |-> "unable to get access token"]
    ELSE IF v.err # "nil"
    THEN [users |-> users, resp |-> Bare(401), logged |-> "uanble to authenticate user"]
    ELSE IF badJSON
    THEN [users |-> users, resp |-> Bare(401), logged |-> "unable to decode request body"]
    ELSE IF upd.err # "nil"
    THEN [users |-> users, resp |-> Bare(401),
          logged |-> "unable to update email and password"]
    ELSE [users |-> upd.users,
          resp |-> [status |-> 200,
                    body |-> User(CHOOSE u \in upd.users : u.id = v.userID)],
          logged |-> ""]

\* The access-token strings a client holds: the one of the last response.
HeldAccessTokens ==
    IF resp.status = 200 /\ "token" \in DOMAIN resp.body THEN {resp.body.token} ELSE {}

\* The Authorization headers a client sends with an access-token string.
AccessHeaders == {Bearer(c) : c \in HeldAccessTokens} \cup {<<>>}

\* handlerPutUsers over the headers and bodies a specification's clients send.
PutUsersWith(headers, bodies) ==
    \E authHeader \in headers, body \in bodies :
        LET badJSON == body.badJSON
            email == body.email
            password == body.password
        IN  \E out \in {PutUsersOutcome(authHeader, badJSON, email, password)} :
            /\ req' = [endpoint |-> "PUT /api/users", authHeader |-> authHeader,
                       badJSON |-> badJSON, email |-> email, password |-> password]
            /\ resp' = out.resp
            /\ users' = out.users
            /\ logged' = out.logged
            /\ UNCHANGED <<refresh_tokens, now, jwtVars, adminVars, chirps, inflight>>

handlerPutUsers == PutUsersWith(AccessHeaders, PutUsersBodies)

----------------------------------------------------------------------------
(* Spec: the server *)

\* How far the clock moves between two requests: a tick, or the lifetime of a
\* refresh token.
ClockSteps == {1, RefreshTokenLifetime}

\* The clock of the model stops: it ticks at most MaxExtraTicks times in a row,
\* and jumps a refresh lifetime once.
ClockMayAdvance(d) ==
    IF d = 1 THEN now % RefreshTokenLifetime < MaxExtraTicks
    ELSE now < RefreshTokenLifetime

Tick ==
    /\ \E d \in ClockSteps :
          /\ ClockMayAdvance(d)
          /\ now' = now + d
    /\ UNCHANGED <<srvVars, jwtVars>>

\* A row written by the earlier handlerUsers, which stored no password.
LegacyUser ==
    [id |-> "u1", email |-> "a@x", hashed_password |-> UnsetHash,
     is_chirpy_red |-> FALSE]

\* The server starts on a database that is empty or holds such a row.
Init ==
    /\ now = 0
    /\ users \in {{}, {LegacyUser}}
    /\ refresh_tokens = {}
    /\ chirps = {}
    /\ inflight = <<>>
    /\ req = [endpoint |-> "none"]
    /\ resp = [status |-> 0, body |-> ""]
    /\ logged = ""
    /\ apiConfig = NewConfig("dev")
    /\ appRequests = 0
    /\ tkn = NoToken
    /\ vres = NoCall

Next ==
    \/ handlerUsers
    \/ handlerLogin
    \/ handlerRefresh
    \/ handlerRevoke
    \/ handlerPutUsers
    \/ Tick

Spec == Init /\ [][Next]_vars

----------------------------------------------------------------------------
(* The chirps table and the handlers behind an access token *)

ChirpIDs == {"c1", "c2"}

\* A chirp body is a sequence of words and white space. Two words stand for
\* longer texts: "max" for a text of exactly MaxChirpLen bytes, "long" for
\* one of a byte more.
ChirpWords ==
    {"hello", "kerfuffle", "Kerfuffle", "SHARBERT", "Fornax", "kerfuffle!",
     "max", "long"}
ChirpSpaces == {" ", "\t"}
MaxChirpLen == 140
ByteLen(word) ==
    CASE word \in ChirpSpaces -> 1
      [] word = "long" -> MaxChirpLen + 1
      [] word = "max" -> MaxChirpLen
      [] word = "hello" -> 5
      [] word = "Fornax" -> 6
      [] word = "SHARBERT" -> 8
      [] word \in {"kerfuffle", "Kerfuffle"} -> 9
      [] word = "kerfuffle!" -> 10

\* strings.ToLower.
ToLower_asIs(word) == word

ToLower(word) ==
    CASE word = "Kerfuffle" -> "kerfuffle"
      [] word = "SHARBERT" -> "sharbert"
      [] word = "Fornax" -> "fornax"
      [] OTHER -> word
badWords == {"kerfuffle", "sharbert", "fornax"}

\* len(chirp.Body): the bytes of the body, white space included.
RECURSIVE len(_)
len(body) ==
    IF body = <<>> THEN 0 ELSE ByteLen(Head(body)) + len(Tail(body))

\* strings.Fields(chirp.Body): the words between white space.
chirpWords(body) == SelectSeq(body, LAMBDA w : w \notin ChirpSpaces)

\* The loop over chirpWords: bad words become "****".
cleanedWords(body) ==
    [i \in 1..Len(chirpWords(body)) |->
        IF ToLower(chirpWords(body)[i]) \in badWords THEN "****"
        ELSE chirpWords(body)[i]]

\* cleaned: the loop replaced a word.
cleaned(body) ==
    \E i \in 1..Len(chirpWords(body)) : ToLower(chirpWords(body)[i]) \in badWords

\* strings.Join(cleanedWords, " ").
rebuilt(body) ==
    [i \in 1..(2 * Len(cleanedWords(body)) - 1) |->
        IF i % 2 = 1 THEN cleanedWords(body)[(i + 1) \div 2] ELSE " "]

\* CreateChirp: INSERT INTO chirps ... RETURNING *. The id is the primary key.
CreateChirp(id, body, user_id) ==
    IF \E c \in chirps : c.id = id
    THEN [err |-> "unique violation", chirps |-> chirps]
    ELSE [err |-> "nil",
          chirps |-> chirps \cup {[id |-> id, body |-> body, user_id |-> user_id]}]

\* GetChirp: find by id.
GetChirp(id) == {c \in chirps : c.id = id}

\* DeleteChirp: DELETE FROM chirps WHERE id.
DeleteChirp(id) == {c \in chirps : c.id # id}

\* The chirp object of a response.
Chirp(dbChirp) == [id |-> dbChirp.id, body |-> dbChirp.body, user_id |-> dbChirp.user_id]

\* What handlerChirps writes: it sets Content-Type before anything else.
JSON(status, body) == [status |-> status, body |-> body, ctype |-> "application/json"]

\* A handlerChirps that takes the owner the request body names.
ChirpOwner_fromBody(userID, chirp) == chirp.user_id

\* handlerChirps: the UserID of createChirpParams.
ChirpOwner(userID, chirp) == userID

\* handlerChirps: POST /api/chirps. The body is decoded first, then the
\* request is authenticated. chirp is the request body (its text and its
\* user_id); id is what gen_random_uuid() draws.
ChirpsOutcome(authHeader, chirp, id) ==
    LET bearer == GetBearerToken(authHeader)
        v == ValidateJWT(bearer.token, ServiceSecret, now)
        body == chirp.body
        ins == CreateChirp(id, body, ChirpOwner(v.userID, chirp))
        same == [chirps |-> chirps]
    IN
    IF chirp.badJSON
    THEN same @@ [resp |-> JSON(500, [error |-> "Something went wrong"]),
                  logged |-> "while validating chirp: something went wrong"]
    ELSE IF bearer.err # "nil"
    THEN same @@ [resp |-> JSON(401, ""), logged |-> "unable to get bearer token"]
    ELSE IF v.err # "nil"
    THEN same @@ [resp |-> JSON(401, ""), logged |-> "unable to validate jwt"]
    ELSE IF len(body) > MaxChirpLen
    THEN same @@ [resp |-> JSON(400, [error |-> "Chirp is too long"]),
                  logged |-> "chirp is too long"]
    ELSE IF cleaned(body)
    THEN same @@ [resp |-> JSON(403, [cleaned_body |-> rebuilt(body)]),
                  logged |-> "cleaned chirp"]
    ELSE IF ins.err # "nil"
    THEN same @@ [resp |-> JSON(501, ""), logged |-> "unable to create chirp"]
    ELSE [chirps |-> ins.chirps,
          resp |-> JSON(201, Chirp(CHOOSE c \in ins.chirps : c.id = id)),
          logged |-> "chirp valid"]

\* handlerDeleteChirp: is the authenticated user refused the chirp?
DeleteForbidden_never(userID, chirp) == FALSE

DeleteForbidden(userID, chirp) == userID # chirp.user_id

\* The {id} of the path: the text of a uuid, or some other text.
ChirpPath(id) == [form |-> "canonical", id |-> id]
ParseChirpID(chirpIDStr) ==
    IF chirpIDStr.form = "canonical" THEN [id |-> chirpIDStr.id, err |-> "nil"]
    ELSE [id |-> NilUUID, err |-> "invalid UUID"]

\* handlerDeleteChirp: what it answers when ValidateJWT returns an error.
DeleteUnauthenticated_telling(err) ==
    IF err = "token is expired" THEN [status |-> 401, body |-> "token is expired"]
    ELSE Bare(401)

DeleteUnauthenticated(err) == Bare(401)

\* handlerDeleteChirp: DELETE /api/chirps/{id}.
DeleteChirpOutcome(authHeader, chirpIDStr) ==
    LET bearer == GetBearerToken(authHeader)
        v == ValidateJWT(bearer.token, ServiceSecret, now)
        parsed == ParseChirpID(chirpIDStr)
        found == GetChirp(parsed.id)
        same == [chirps |-> chirps]
    IN
    IF bearer.err # "nil"
    THEN same @@ [resp |-> Bare(401), logged |-> "unable to get bearer token"]
    ELSE IF v.err # "nil"
    THEN same @@ [resp |-> DeleteUnauthenticated(v.err),
                  logged |-> "unable to validate"]
    ELSE IF parsed.err # "nil"
    THEN same @@ [resp |-> Bare(404), logged |-> "could not parse chirp id"]
    ELSE IF found = {}
    THEN same @@ [resp |-> Bare(404), logged |-> "could not get chirp"]
    ELSE IF DeleteForbidden(v.userID, CHOOSE c \in found : TRUE)
    THEN same @@ [resp |-> Bare(403), logged |-> "user is not the author"]
    ELSE [chirps |-> DeleteChirp(parsed.id), resp |-> Bare(204), logged |-> ""]

\* The access tokens the logins so far have returned: one for each stored
\* refresh-token record, made for its user when the record was.
IssuedAccessTokens ==
    {MakeJWT(r.user_id, ServiceSecret, AccessTokenLifetime,
             r.expires_at - RefreshTokenLifetime) : r \in refresh_tokens}

\* A token nobody issued: made now for the first user, under another secret.
ForgedAccessToken == MakeJWT("u1", "other", AccessTokenLifetime, now)

\* The Authorization headers sent to a protected endpoint: an issued access
\* token (fresh or expired by now), a forged one, another scheme, or none.
ProtectedHeaders ==
    {Bearer(c) : c \in IssuedAccessTokens \cup {ForgedAccessToken}}
        \cup {<<Word("Token"), Blank, Word("abc")>>, <<>>}

\* Request bodies of POST /api/chirps: texts, each with the user_id of
\* ownerIDs it names, and a body that does not decode.
ChirpRequests(texts, ownerIDs) ==
    {[badJSON |-> TRUE, body |-> <<>>, user_id |-> NilUUID]}
        \cup {[badJSON |-> FALSE, body |-> b, user_id |-> o] :
                 b \in texts, o \in ownerIDs}

ChirpTexts == {<<"hello">>, <<"hello", " ", "Kerfuffle">>, <<"long">>}
ChirpBodies == ChirpRequests(ChirpTexts, {NilUUID})
ChirpPaths == {ChirpPath(c) : c \in ChirpIDs} \cup {[form |-> "garbage", id |-> "x"]}

\* handlerChirps over the headers and bodies a specification's clients send.
ChirpsWith(headers, bodies) ==
    \E authHeader \in headers, chirp \in bodies, id \in ChirpIDs :
        \E out \in {ChirpsOutcome(authHeader, chirp, id)} :
            /\ req' = [endpoint |-> "POST /api/chirps", authHeader |-> authHeader,
                       badJSON |-> chirp.badJSON, body |-> chirp.body,
                       user_id |-> chirp.user_id]
            /\ resp' = out.resp
            /\ chirps' = out.chirps
            /\ logged' = out.logged
            /\ UNCHANGED <<users, refresh_tokens, now, jwtVars, adminVars, inflight>>

handlerChirps == ChirpsWith(ProtectedHeaders, ChirpBodies)

\* handlerDeleteChirp over the headers a specification's clients send.
DeleteChirpWith(headers) ==
    \E authHeader \in headers, chirpIDStr \in ChirpPaths :
        \E out \in {DeleteChirpOutcome(authHeader, chirpIDStr)} :
            /\ req' = [endpoint |-> "DELETE /api/chirps/{id}",
                       authHeader |-> authHeader, id |-> chirpIDStr]
            /\ resp' = out.resp
            /\ chirps' = out.chirps
            /\ logged' = out.logged
            /\ UNCHANGED <<users, refresh_tokens, now, jwtVars, adminVars, inflight>>

handlerDeleteChirp == DeleteChirpWith(ProtectedHeaders)

----------------------------------------------------------------------------
(* SpecAPI: registration, login and the protected endpoints *)

\* The clock moves by the lifetime of an access token, once.
TickAPI ==
    /\ now < AccessTokenLifetime
    /\ now' = now + AccessTokenLifetime
    /\ UNCHANGED <<srvVars, jwtVars>>

InitAPI == Init /\ users = {}

\* Clients register and log in with the first password.
APIBodies == Bodies({FirstPassword})

NextAPI ==
    \/ UsersWith(APIBodies)
    \/ LoginWith(APIBodies)
    \/ PutUsersWith(ProtectedHeaders, APIBodies)
    \/ handlerChirps
    \/ handlerDeleteChirp
    \/ TickAPI

SpecAPI == InitAPI /\ [][NextAPI]_vars

----------------------------------------------------------------------------
(* SpecChirps: two users post and delete chirps of every kind of text *)

\* Texts posted: short, of exactly the longest length, a byte longer (by a
\* trailing blank, or as a whole), with a bad word in some letter case after
\* a blank or a tab, with a bad word followed by a mark, long with a bad word.
PostTexts ==
    {<<"hello">>, <<"max">>, <<"max", " ">>, <<"long">>,
     <<"hello", " ", "Kerfuffle">>, <<"hello", "\t", "SHARBERT">>, <<"Fornax">>,
     <<"kerfuffle">>, <<"kerfuffle!">>, <<"long", " ", "kerfuffle">>}

\* Each text is posted with no user_id; the first also with the id of either
\* user as its user_id.
PostBodies ==
    ChirpRequests(PostTexts, {NilUUID}) \cup ChirpRequests({<<"hello">>}, UserIDs)

\* The clients hold the access tokens of their logins, or send none.
PostHeaders == {Bearer(c) : c \in IssuedAccessTokens} \cup {<<>>}

NextChirps ==
    \/ UsersWith(APIBodies)
    \/ LoginWith(APIBodies)
    \/ ChirpsWith(PostHeaders, PostBodies)
    \/ DeleteChirpWith(PostHeaders)

SpecChirps == InitAPI /\ [][NextChirps]_vars

----------------------------------------------------------------------------
(* SpecKinds: each kind of token presented to every endpoint *)

\* A client sends whichever token string it holds, of either kind, to any
\* endpoint that reads a Bearer credential.
AnyKindHeaders ==
    {Bearer(c) : c \in {r.token : r \in refresh_tokens} \cup IssuedAccessTokens}

\* Chirps posted here: one text, or a body that does not decode.
KindsChirps == ChirpRequests({<<"hello">>}, {NilUUID})

NextKinds ==
    \/ UsersWith(APIBodies)
    \/ LoginWith(APIBodies)
    \/ RefreshWith(AnyKindHeaders)
    \/ RevokeWith(AnyKindHeaders)
    \/ PutUsersWith(AnyKindHeaders, APIBodies)
    \/ ChirpsWith(AnyKindHeaders, KindsChirps)
    \/ DeleteChirpWith(AnyKindHeaders)

SpecKinds == InitAPI /\ [][NextKinds]_vars

----------------------------------------------------------------------------
(* SpecAccounts: registration, profile update and login, with every password *)

\* The passwords clients send: two that differ, and none.
AccountBodies == Bodies(Passwords \cup {""})

\* A profile update carries an access token its user's login returned, or no
\* Authorization header.
AccountHeaders == {Bearer(c) : c \in IssuedAccessTokens} \cup {<<>>}

NextAccounts ==
    \/ UsersWith(AccountBodies)
    \/ LoginWith(AccountBodies)
    \/ PutUsersWith(AccountHeaders, AccountBodies)

SpecAccounts == Init /\ [][NextAccounts]_vars

----------------------------------------------------------------------------
(* SpecRace: refresh and revoke requests served concurrently *)

\* net/http serves each connection on its own goroutine. A handler's calls
\* to the store are single statements, each atomic in the database; between
\* two of them the handlers of other connections run.
Conns == {"k1", "k2"}

Idle == [pc |-> "idle"]
NoResponse == [status |-> 0, body |-> ""]

\* handlerRevoke after GetBearerToken: it updates the store, then responds.
RevokePlan_respondFirst == <<"respond", "update">>

RevokePlan == <<"update", "respond">>

\* The stored tokens whose revoke the server has answered 204: tokens that
\* had a row when their revoke arrived.
AckedRevokes ==
    {GetBearerToken(inflight[k].authHeader).token :
        k \in {c \in Conns :
                 /\ inflight[c].pc # "idle"
                 /\ inflight[c].handler = "revoke"
                 /\ inflight[c].resp = Bare(204)
                 /\ \E r \in inflight[c].storeAtStart :
                       r.token = GetBearerToken(inflight[c].authHeader).token}}

RaceHeaders == {Bearer(c) : c \in TokenStrings} \cup {<<>>}

\* A request reaches its handler. What the store held, which requests were
\* being handled, and whether a revoke of the presented token had been
\* answered, are noted for the record.
Arrives(k, handler) ==
    /\ inflight[k] = Idle
    /\ \E authHeader \in RaceHeaders :
          inflight' = [inflight EXCEPT ![k] =
              [pc |-> "started", handler |-> handler, authHeader |-> authHeader,
               done |-> 0, found |-> {}, resp |-> NoResponse,
               storeAtStart |-> refresh_tokens,
               openAtStart |-> {c \in Conns : inflight[c].pc \in {"started", "fetched"}},
               ackedAtStart |-> (GetBearerToken(authHeader).token \in AckedRevokes)]]
    /\ UNCHANGED <<users, refresh_tokens, chirps, req, resp, logged, now, jwtVars, adminVars>>

RefreshArrives == \E k \in Conns : Arrives(k, "refresh")
RevokeArrives == \E k \in Conns : Arrives(k, "revoke")

\* handlerRefresh, first part: GetBearerToken, then the GetRefreshToken query.
RefreshGets ==
    \E k \in Conns :
        /\ inflight[k].pc = "started"
        /\ inflight[k].handler = "refresh"
        /\ LET bearer == GetBearerToken(inflight[k].authHeader)
           IN  inflight' = [inflight EXCEPT ![k] =
                   IF bearer.err # "nil"
                   THEN [@ EXCEPT !.pc = "responded", !.resp = Bare(401)]
                   ELSE [@ EXCEPT !.pc = "fetched",
                                  !.found = GetRefreshToken(bearer.token)]]
        /\ UNCHANGED <<users, refresh_tokens, chirps, req, resp, logged, now, jwtVars, adminVars>>

\* handlerRefresh, second part: the checks on the row it holds, the access
\* token, the response.
RefreshResponds ==
    \E k \in Conns :
        /\ inflight[k].pc = "fetched"
        /\ inflight' = [inflight EXCEPT ![k] =
               [@ EXCEPT !.pc = "responded",
                         !.resp = RefreshFound(inflight[k].found).resp]]
        /\ refresh_tokens' = RefreshFound(inflight[k].found).refresh_tokens
        /\ UNCHANGED <<users, chirps, req, resp, logged, now, jwtVars, adminVars>>

\* handlerRevoke: GetBearerToken, then the steps of RevokePlan, one at a time.
RevokeSteps ==
    \E k \in Conns :
        /\ inflight[k].pc = "started"
        /\ inflight[k].handler = "revoke"
        /\ LET bearer == GetBearerToken(inflight[k].authHeader)
               step == RevokePlan[inflight[k].done + 1]
               pc == IF inflight[k].done + 1 = Len(RevokePlan)
                     THEN "responded" ELSE "started"
           IN  IF bearer.err # "nil"
               THEN /\ inflight' = [inflight EXCEPT ![k] =
                           [@ EXCEPT !.pc = "responded", !.resp = Bare(401)]]
                    /\ UNCHANGED refresh_tokens
               ELSE IF step = "update"
               THEN /\ refresh_tokens' = RevokeRefreshToken(bearer.token, now)
                    /\ inflight' = [inflight EXCEPT ![k] =
                           [@ EXCEPT !.pc = pc, !.done = @ + 1]]
               ELSE /\ inflight' = [inflight EXCEPT ![k] =
                           [@ EXCEPT !.pc = pc, !.done = @ + 1, !.resp = Bare(204)]]
                    /\ UNCHANGED refresh_tokens
        /\ UNCHANGED <<users, chirps, req, resp, logged, now, jwtVars, adminVars>>

\* One client registers and logs in (these two handlers taken whole).
RaceBodies == {[badJSON |-> FALSE, email |-> "a@x", password |-> FirstPassword]}

\* The connections are idle; registration and login leave them so.
RaceUsers == UsersWith(RaceBodies)
RaceLogin == LoginWith(RaceBodies)

InitRace ==
    /\ now = 0
    /\ users = {}
    /\ refresh_tokens = {}
    /\ chirps = {}
    /\ inflight = [k \in Conns |-> Idle]
    /\ req = [endpoint |-> "none"]
    /\ resp = [status |-> 0, body |-> ""]
    /\ logged = ""
    /\ apiConfig = NewConfig("dev")
    /\ appRequests = 0
    /\ tkn = NoToken
    /\ vres = NoCall

NextRace ==
    \/ RaceUsers
    \/ RaceLogin
    \/ RefreshArrives
    \/ RefreshGets
    \/ RefreshResponds
    \/ RevokeArrives
    \/ RevokeSteps

SpecRace == InitRace /\ [][NextRace]_vars

----------------------------------------------------------------------------
(* The admin endpoints, the file server and the webhook *)

\* DeleteAllUsers: DELETE FROM users. The rows that reference a user (its
\* refresh tokens, its chirps) go with it; dbFails is a statement that the
\* database refuses or never receives.
DeleteAllUsers(dbFails) ==
    IF dbFails
    THEN [err |-> "database error", users |-> users,
          refresh_tokens |-> refresh_tokens, chirps |-> chirps]
    ELSE [err |-> "nil", users |-> {}, refresh_tokens |-> {}, chirps |-> {}]

\* A reset that clears the counter whatever the platform is.
ResetAllowed_always(platform) == TRUE

\* handlerReset: the platform it runs on.
ResetAllowed(platform) == platform = "dev"

\* handlerReset: POST /admin/reset.
ResetOutcome(dbFails) ==
    LET del == DeleteAllUsers(dbFails)
        same == [users |-> users, refresh_tokens |-> refresh_tokens,
                 chirps |-> chirps, apiConfig |-> apiConfig,
                 appRequests |-> appRequests]
    IN
    IF ~ResetAllowed(apiConfig.platform)
    THEN same @@ [resp |-> Bare(403), logged |-> ""]
    ELSE IF del.err # "nil"
    THEN same @@ [resp |-> Bare(500), logged |-> "unable to delete users"]
    ELSE [users |-> del.users, refresh_tokens |-> del.refresh_tokens,
          chirps |-> del.chirps,
          apiConfig |-> [apiConfig EXCEPT !.fileserverHits = 0],
          appRequests |-> 0,
          resp |-> Bare(200), logged |-> ""]

handlerReset ==
    \E dbFails \in BOOLEAN :
        \E out \in {ResetOutcome(dbFails)} :
            /\ req' = [endpoint |-> "POST /admin/reset"]
            /\ resp' = out.resp
            /\ users' = out.users
            /\ refresh_tokens' = out.refresh_tokens
            /\ chirps' = out.chirps
            /\ apiConfig' = out.apiConfig
            /\ appRequests' = out.appRequests
            /\ logged' = out.logged
            /\ UNCHANGED <<now, jwtVars, inflight>>

\* The hit counter of the model stops here.
MaxHits == 1

\* middlewareMetricsInc around the file server: /app/. The counter is raised,
\* then the file (or the file server's 404) is served.
handlerApp ==
    /\ apiConfig.fileserverHits < MaxHits
    /\ \E found \in BOOLEAN :
          /\ req' = [endpoint |-> "GET /app/"]
          /\ resp' = IF found THEN [status |-> 200, body |-> "file"] ELSE Bare(404)
    /\ apiConfig' = [apiConfig EXCEPT !.fileserverHits = @ + 1]
    /\ appRequests' = appRequests + 1
    /\ logged' = "hit"
    /\ UNCHANGED <<users, refresh_tokens, chirps, now, jwtVars, inflight>>

\* handlerMetrics: GET /admin/metrics, the page with the counter.
handlerMetrics ==
    /\ req' = [endpoint |-> "GET /admin/metrics"]
    /\ resp' = [status |-> 200, body |-> [visited |-> apiConfig.fileserverHits]]
    /\ logged' = ""
    /\ UNCHANGED <<users, refresh_tokens, chirps, now, jwtVars, adminVars, inflight>>

\* auth.GetAPIKey: the second of exactly two fields whose first is ApiKey.
GetAPIKey(authHeader) ==
    IF authHeader = <<>> \/ Len(Fields(authHeader)) # 2
           \/ Fields(authHeader)[1] # Word("ApiKey")
    THEN [key |-> Word(""), err |-> "no api key"]
    ELSE [key |-> Fields(authHeader)[2], err |-> "nil"]

\* main: POLKA_KEY.
polkaKey == Word("polka-key")

\* UpgradeUserChirpyRed: UPDATE users SET is_chirpy_red = true WHERE id.
\* No row (:one) is an error.
UpgradeUserChirpyRed(id) ==
    IF ~(\E u \in users : u.id = id) THEN [err |-> "no rows", users |-> users]
    ELSE [err |-> "nil",
          users |-> {IF u.id = id THEN [u EXCEPT !.is_chirpy_red = TRUE] ELSE u :
                        u \in users}]

\* handlerPolkaWebhook: POST /api/polka/webhooks.
PolkaOutcome(authHeader, body) ==
    LET apiKey == GetAPIKey(authHeader)
        parsed == UUIDParse(body.user_id)
        upg == UpgradeUserChirpyRed(parsed.id)
        same == [users |-> users]
    IN
    IF apiKey.err # "nil"
    THEN same @@ [resp |-> Bare(401), logged |-> "unable to get API Key"]
    ELSE IF apiKey.key # polkaKey
    THEN same @@ [resp |-> Bare(401), logged |-> "api keys do not match"]
    ELSE IF body.badJSON
    THEN same @@ [resp |-> Bare(501), logged |-> "unable to decode req body"]
    ELSE IF body.event # "user.upgraded"
    THEN same @@ [resp |-> Bare(204), logged |-> ""]
    ELSE IF parsed.err # "nil"
    THEN same @@ [resp |-> Bare(404), logged |-> "unable to parse user ID"]
    ELSE IF upg.err # "nil"
    THEN same @@ [resp |-> Bare(404), logged |-> "unable to upgrade user"]
    ELSE [users |-> upg.users, resp |-> Bare(204), logged |-> ""]

\* What the partner sends to the webhook: an upgrade of some user id (or of
\* text that is none), another event, a body that does not decode. Others
\* send an upgrade with a key they guess, or with none.
PolkaUpgrades ==
    {[badJSON |-> FALSE, event |-> "user.upgraded", user_id |-> x] : x \in Subjects}
PolkaBodies ==
    PolkaUpgrades
        \cup {[badJSON |-> TRUE, event |-> "", user_id |-> UUIDString(NilUUID)],
              [badJSON |-> FALSE, event |-> "user.payment_failed",
               user_id |-> UUIDString("u1")]}
PolkaRequests ==
    {[authHeader |-> <<Word("ApiKey"), Blank, polkaKey>>, body |-> b] : b \in PolkaBodies}
        \cup {[authHeader |-> h, body |-> [badJSON |-> FALSE, event |-> "user.upgraded",
                                           user_id |-> UUIDString("u1")]] :
                 h \in {<<Word("ApiKey"), Blank, Word("guess")>>, <<>>}}

handlerPolkaWebhook ==
    \E authHeader \in {r.authHeader : r \in PolkaRequests} :
      \E body \in {r.body : r \in {q \in PolkaRequests : q.authHeader = authHeader}} :
        \E out \in {PolkaOutcome(authHeader, body)} :
            /\ req' = [endpoint |-> "POST /api/polka/webhooks",
                       authHeader |-> authHeader, badJSON |-> body.badJSON,
                       event |-> body.event, user_id |-> body.user_id]
            /\ resp' = out.resp
            /\ users' = out.users
            /\ logged' = out.logged
            /\ UNCHANGED <<refresh_tokens, chirps, now, jwtVars, adminVars, inflight>>

----------------------------------------------------------------------------
(* SpecAdmin: every endpoint, on a dev server or another *)

\* The server starts on some platform with its tables empty.
InitAdmin ==
    /\ now = 0
    /\ tkn = NoToken
    /\ vres = NoCall
    /\ users = {}
    /\ refresh_tokens = {}
    /\ chirps = {}
    /\ inflight = <<>>
    /\ req = [endpoint |-> "none"]
    /\ resp = [status |-> 0, body |-> ""]
    /\ logged = ""
    /\ \E platform \in Platforms : apiConfig = NewConfig(platform)
    /\ appRequests = 0

\* Two clients register, one of them logs in; whoever holds a token sends it.
AdminUsers == {[badJSON |-> FALSE, email |-> e, password |-> FirstPassword] : e \in Emails}
AdminBodies == {[badJSON |-> FALSE, email |-> "a@x", password |-> FirstPassword]}
AdminRefreshHeaders == {Bearer(r.token) : r \in refresh_tokens}

NextAdmin ==
    \/ UsersWith(AdminUsers)
    \/ LoginWith(AdminBodies)
    \/ RefreshWith(AdminRefreshHeaders)
    \/ RevokeWith(AdminRefreshHeaders)
    \/ PutUsersWith(PostHeaders, AdminBodies)
    \/ ChirpsWith(PostHeaders, KindsChirps)
    \/ DeleteChirpWith(PostHeaders)
    \/ handlerPolkaWebhook
    \/ handlerReset
    \/ handlerApp
    \/ handlerMetrics

SpecAdmin == InitAdmin /\ [][NextAdmin]_vars

----------------------------------------------------------------------------
(* SpecHits: /app/ requests, resets and the metrics page served concurrently *)

\* The /app/ requests that arrive between two resets are at most this many.
MaxAppRequests == 2

\* A middleware that reads the counter and writes it back one higher.
HitPlan_loadThenStore == <<"load", "store", "serve">>

\* middlewareMetricsInc: fileserverHits.Add(1), one atomic step, then the
\* file server.
HitPlan == <<"add", "serve">>

\* handlerReset on a dev server: DeleteAllUsers, then fileserverHits.Swap(0).
\* The response is written when the handler returns.
ResetPlan == <<"delete", "swap">>

\* The /app/ requests being handled that the counter has yet to count.
Uncounted ==
    {k \in Conns :
        /\ inflight[k].pc = "started"
        /\ inflight[k].handler = "app"
        /\ \E i \in (inflight[k].done + 1)..Len(HitPlan) : HitPlan[i] \in {"add", "store"}}

AppArrives ==
    \E k \in Conns :
        /\ inflight[k].pc \in {"idle", "responded"}
        /\ appRequests + Cardinality(Uncounted) < MaxAppRequests
        /\ inflight' = [inflight EXCEPT ![k] =
               [pc |-> "started", handler |-> "app", done |-> 0, seen |-> 0,
                dbFails |-> FALSE, resp |-> NoResponse]]
        /\ UNCHANGED <<users, refresh_tokens, chirps, req, resp, logged, now, jwtVars,
                       adminVars>>

\* The next step of HitPlan on one connection.
AppSteps ==
    \E k \in Conns :
        /\ inflight[k].pc = "started"
        /\ inflight[k].handler = "app"
        /\ LET step == HitPlan[inflight[k].done + 1]
               pc == IF inflight[k].done + 1 = Len(HitPlan)
                     THEN "responded" ELSE "started"
               seen == IF step = "load" THEN apiConfig.fileserverHits
                       ELSE inflight[k].seen
           IN  /\ inflight' = [inflight EXCEPT ![k] =
                      [@ EXCEPT !.pc = pc, !.done = @ + 1, !.seen = seen,
                                !.resp = IF step = "serve"
                                         THEN [status |-> 200, body |-> "file"]
                                         ELSE @]]
               /\ apiConfig' =
                      IF step = "add"
                      THEN [apiConfig EXCEPT !.fileserverHits = @ + 1]
                      ELSE IF step = "store"
                      THEN [apiConfig EXCEPT !.fileserverHits = inflight[k].seen + 1]
                      ELSE apiConfig
               /\ appRequests' =
                      IF step \in {"add", "store"} THEN appRequests + 1 ELSE appRequests
        /\ UNCHANGED <<users, refresh_tokens, chirps, req, resp, logged, now, jwtVars>>

\* A reset arrives; whether its DELETE will fail is the database's.
ResetArrives ==
    \E k \in Conns, dbFails \in BOOLEAN :
        /\ inflight[k].pc \in {"idle", "responded"}
        /\ inflight' = [inflight EXCEPT ![k] =
               [pc |-> "started", handler |-> "reset", done |-> 0, seen |-> 0,
                dbFails |-> dbFails, resp |-> NoResponse]]
        /\ UNCHANGED <<users, refresh_tokens, chirps, req, resp, logged, now, jwtVars,
                       adminVars>>

\* handlerReset, a statement at a time: the platform check with the DELETE,
\* then the Swap.
ResetSteps ==
    \E k \in Conns :
        /\ inflight[k].pc = "started"
        /\ inflight[k].handler = "reset"
        /\ LET step == ResetPlan[inflight[k].done + 1]
               del == DeleteAllUsers(inflight[k].dbFails)
               answer(status) == [inflight EXCEPT ![k] =
                                    [@ EXCEPT !.pc = "responded", !.resp = Bare(status)]]
           IN  IF ~ResetAllowed(apiConfig.platform)
               THEN /\ inflight' = answer(403)
                    /\ UNCHANGED <<users, refresh_tokens, chirps, adminVars>>
               ELSE IF step = "delete" /\ del.err # "nil"
               THEN /\ inflight' = answer(500)
                    /\ UNCHANGED <<users, refresh_tokens, chirps, adminVars>>
               ELSE IF step = "delete"
               THEN /\ inflight' = [inflight EXCEPT ![k] = [@ EXCEPT !.done = @ + 1]]
                    /\ users' = del.users
                    /\ refresh_tokens' = del.refresh_tokens
                    /\ chirps' = del.chirps
                    /\ UNCHANGED adminVars
               ELSE /\ inflight' = answer(200)
                    /\ apiConfig' = [apiConfig EXCEPT !.fileserverHits = 0]
                    /\ appRequests' = 0
                    /\ UNCHANGED <<users, refresh_tokens, chirps>>
        /\ UNCHANGED <<req, resp, logged, now, jwtVars>>

InitHits ==
    /\ now = 0
    /\ tkn = NoToken
    /\ vres = NoCall
    /\ users = {LegacyUser}
    /\ refresh_tokens = {}
    /\ chirps = {}
    /\ inflight = [k \in Conns |-> Idle]
    /\ req = [endpoint |-> "none"]
    /\ resp = [status |-> 0, body |-> ""]
    /\ logged = ""
    /\ \E platform \in Platforms : apiConfig = NewConfig(platform)
    /\ appRequests = 0

NextHits ==
    \/ AppArrives
    \/ AppSteps
    \/ ResetArrives
    \/ ResetSteps
    \/ handlerMetrics

SpecHits == InitHits /\ [][NextHits]_vars

----------------------------------------------------------------------------
(* SpecSession: a client keeps its access token while the store changes *)

\* The client keeps the access token of the login response it just read, with
\* the user id the response names.
ClientKeeps ==
    /\ req.endpoint = "POST /api/login"
    /\ resp.status = 200
    /\ tkn' = [made |-> TRUE, str |-> resp.body.token, userID |-> resp.body.id]
    /\ tkn' # tkn
    /\ UNCHANGED <<now, vres, srvVars>>

\* The Authorization header the client sends from then on.
SessionHeaders == IF tkn.made THEN {Bearer(tkn.str)} ELSE {}

\* The client changes both its email and its password.
SessionBodies == {[badJSON |-> FALSE, email |-> "b@x", password |-> "pw2"]}

NextSession ==
    \/ UsersWith(AdminBodies)
    \/ LoginWith(AdminBodies)
    \/ ClientKeeps
    \/ RevokeWith(AdminRefreshHeaders)
    \/ PutUsersWith(SessionHeaders, SessionBodies)
    \/ ChirpsWith(SessionHeaders, KindsChirps)
    \/ handlerReset
    \/ TickAPI

SpecSession == InitAdmin /\ [][NextSession]_vars

----------------------------------------------------------------------------
(* Claims about the access-token codec, checked under SpecJWT *)

\* The last ValidateJWT call was given the issued token and its own secret.
ValidatedIssued ==
    /\ tkn # NoToken
    /\ vres # NoCall
    /\ vres.tokenString = tkn.str
    /\ vres.secret = tkn.secret

Accepted(u) == vres.out = [userID |-> u, err |-> "nil"]
RejectedExpired == vres.out = [userID |-> NilUUID, err |-> "token is expired"]
Rejected == vres.out.userID = NilUUID /\ vres.out.err # "nil"

\* C1 as stated: ValidateJWT(MakeJWT(u, s, L), s) returns u, without error, at
\* every time strictly before issue-time + L.
C1_ValidUntilIssuePlusL ==
    (ValidatedIssued /\ vres.at < tkn.issuedAt + tkn.expiresIn)
        => Accepted(tkn.userID)

\* C1 amended: ValidateJWT(MakeJWT(u, s, L), s) returns u, without error, at
\* every time strictly before issue-time + L truncated down to a whole second
\* (the expiry the token carries).
C1_ValidUntilTruncatedExpiry ==
    (ValidatedIssued /\ vres.at < Truncate(tkn.issuedAt + tkn.expiresIn))
        => Accepted(tkn.userID)

\* The issued token was validated after time had passed and was still accepted.
C1_Witness ==
    /\ ValidatedIssued
    /\ vres.at > tkn.issuedAt
    /\ vres.at < Truncate(tkn.issuedAt + tkn.expiresIn)
    /\ Accepted(tkn.userID)

\* C2: an issued token is rejected as expired at every time now >= issue-time
\* + L, the expiry instant included, and once it has been rejected for expiry
\* it is rejected for expiry at every later time.
C2_ExpiredRejectedForever ==
    ValidatedIssued =>
        /\ (vres.at >= tkn.issuedAt + tkn.expiresIn => RejectedExpired)
        /\ (RejectedExpired =>
               \A t \in vres.at..(MaxJWTNow + TicksPerSecond) :
                   ValidateJWT(tkn.str, tkn.secret, t)
                       = [userID |-> NilUUID, err |-> "token is expired"])

\* The issued token was validated exactly at issue-time + L and rejected.
C2_Witness ==
    /\ ValidatedIssued
    /\ vres.at = tkn.issuedAt + tkn.expiresIn
    /\ RejectedExpired

\* The strings MakeJWT returns under secret s.
Issuable(s) ==
    {MakeJWT(u, s, L, t) : u \in UserIDs, L \in 1..MaxLifetime, t \in 0..MaxJWTNow}

\* C3: ValidateJWT returns no user id for a token string that is not a validly
\* issued token of the secret it is verified with: a string that differs from
\* an issued token in any character, or a token issued under another secret.
C3_AlteredOrWrongSecretRejected ==
    (vres # NoCall /\ vres.tokenString \notin Issuable(vres.secret)) => Rejected

\* What remains of C3 when the bits of the signature's last character that
\* encode nothing are left as issued.
C3_RejectedUnlessTailBits ==
    (/\ vres # NoCall
     /\ vres.tokenString \notin Issuable(vres.secret)
     /\ (vres.tokenString # Malformed => vres.tokenString.sigTail = 0)) => Rejected

----------------------------------------------------------------------------
(* Claims about login, refresh and revoke, checked under Spec *)

\* A step that handles a request: every handler records the request it
\* handled, and only the clock's steps change the time.
Handling(endpoint) == now' = now /\ req'.endpoint = endpoint

IsRefresh(r) == r.endpoint = "POST /api/refresh"
IsLogin(r) == r.endpoint = "POST /api/login"

\* The request r is a refresh that presents the token string c.
RefreshPresents(r, c) ==
    /\ IsRefresh(r)
    /\ GetBearerToken(r.authHeader) = [token |-> c, err |-> "nil"]

\* The response carries an access token.
HasToken(w) == w.status = 200 /\ "token" \in DOMAIN w.body
HasRefreshToken(w) == w.status = 200 /\ "refresh_token" \in DOMAIN w.body

TokensOf(rows) == {r.token : r \in rows}

\* C4: revocation is one-way. A record whose revoked_at is set keeps it set
\* through every step (login, refresh, revoke, user update, registration,
\* time passing), and a refresh that presents the token of such a record is
\* answered 401.
C4_RevocationOneWay ==
    [][ /\ \A r \in refresh_tokens :
              r.revoked_at.valid =>
                  \E r2 \in refresh_tokens' :
                      r2.token = r.token /\ r2.revoked_at.valid
        /\ \A r \in refresh_tokens' :
              (r.revoked_at.valid /\ RefreshPresents(req', r.token))
                  => resp' = Bare(401) ]_vars

\* A refresh presented a token revoked at an earlier time, and got 401.
C4_Witness ==
    \E r \in refresh_tokens :
        /\ r.revoked_at.valid
        /\ r.revoked_at.time < now
        /\ RefreshPresents(req, r.token)
        /\ resp = Bare(401)
        /\ logged = "revoked refresh token"

\* C5: the refresh endpoint issues an access token if and only if the
\* presented token has a stored record, that record is not revoked, and
\* now < expires_at; at now = expires_at the request is rejected as expired.
C5_RefreshIffLive ==
    [][ Handling("POST /api/refresh") =>
          (HasToken(resp') <=>
              \E r \in refresh_tokens :
                  /\ RefreshPresents(req', r.token)
                  /\ ~r.revoked_at.valid
                  /\ now < r.expires_at) ]_vars

\* What the handler does instead: it issues while now <= expires_at.
C5_RefreshIffNotAfterExpiry ==
    [][ Handling("POST /api/refresh") =>
          (HasToken(resp') <=>
              \E r \in refresh_tokens :
                  /\ RefreshPresents(req', r.token)
                  /\ ~r.revoked_at.valid
                  /\ now <= r.expires_at) ]_vars

\* The same refresh, asked again in this state, would succeed.
RefreshAgainSucceeds == RefreshOutcome(req.authHeader).resp.status = 200

\* C6: a refresh request, successful or not, leaves the refresh-token store
\* unchanged; after a successful refresh the same token, presented again,
\* succeeds again.
C6_RefreshLeavesStore ==
    [][ Handling("POST /api/refresh") =>
          /\ refresh_tokens' = refresh_tokens
          /\ (HasToken(resp') => RefreshAgainSucceeds') ]_vars

\* A refresh succeeded a tick or more after the login that made its record,
\* and the record is as the login wrote it.
C6_Witness ==
    \E r \in refresh_tokens :
        /\ RefreshPresents(req, r.token)
        /\ HasToken(resp)
        /\ now > r.expires_at - RefreshTokenLifetime
        /\ r.revoked_at = NULL

\* The instants at which an access token made at t is probed: when made, a
\* tick later, and the last tick before it expires.
ProbeTimes(token, t) == {t, t + 1, token.claims.exp - 1}

\* C7: the access token of a successful refresh validates, under the service
\* secret and before its expiry, to the user id of the presented record and to
\* no other; that id is the one of the user whose login made the record, and
\* no step changes it.
C7_RefreshTokenForOwner ==
    [][ /\ (Handling("POST /api/refresh") /\ HasToken(resp')) =>
              \E r \in refresh_tokens :
                  /\ RefreshPresents(req', r.token)
                  /\ \A t \in ProbeTimes(resp'.body.token, now) :
                        t < resp'.body.token.claims.exp =>
                            ValidateJWT(resp'.body.token, ServiceSecret, t)
                                = [userID |-> r.user_id, err |-> "nil"]
        /\ (Handling("POST /api/login") /\ HasRefreshToken(resp')) =>
              /\ \E u \in users :
                    u.email = req'.email /\ u.id = resp'.body.id
              /\ \E r \in refresh_tokens' :
                    r.token = resp'.body.refresh_token /\ r.user_id = resp'.body.id
        /\ \A r \in refresh_tokens :
              \E r2 \in refresh_tokens' :
                  r2.token = r.token /\ r2.user_id = r.user_id ]_vars

\* A refresh succeeded while the store held records of two users.
C7_Witness ==
    /\ IsRefresh(req)
    /\ HasToken(resp)
    /\ \E r1, r2 \in refresh_tokens :
          /\ r1.user_id # r2.user_id
          /\ RefreshPresents(req, r1.token)
          /\ resp.body.token.claims.sub = UUIDString(r1.user_id)

\* The three ways a decoded login request is refused, in the current store.
NoSuchUser(body) == GetUserByEmail(body.email) = {}
BadHash(body) ==
    \E u \in GetUserByEmail(body.email) :
        CheckPassword(body.password, u.hashed_password).err # "nil"
WrongPassword(body) ==
    \E u \in GetUserByEmail(body.email) :
        LET chk == CheckPassword(body.password, u.hashed_password)
        IN  chk.err = "nil" /\ ~chk.match
Refused(body) ==
    ~body.badJSON /\ (NoSuchUser(body) \/ BadHash(body) \/ WrongPassword(body))

\* C8: login answers the same (status 401, the same body) when there is no
\* user with the email, when the password is wrong and when the stored hash
\* cannot be parsed: any two refused requests get equal responses, and so did
\* the request handled last.
C8_LoginRefusalsAlike ==
    /\ \A b1, b2 \in LoginBodies :
          (Refused(b1) /\ Refused(b2)) =>
              /\ LoginOutcome(FALSE, b1.email, b1.password, [hex |-> "r1"]).resp
                    = LoginOutcome(FALSE, b2.email, b2.password, [hex |-> "r1"]).resp
              /\ LoginOutcome(FALSE, b1.email, b1.password, [hex |-> "r1"]).resp.status
                    = 401
    /\ (IsLogin(req) /\ Refused(req)) =>
          resp = [status |-> 401, body |-> "Incorrect email or password"]

\* A login was refused for a hash that cannot be parsed, in a store where a
\* wrong password can be refused too.
C8_Witness ==
    /\ IsLogin(req)
    /\ BadHash(req)
    /\ resp.status = 401
    /\ logged = "uanble to check password"
    /\ \E b \in LoginBodies : WrongPassword(b)

\* The email of the request exists and its password matches the stored hash.
Authenticates(body) ==
    /\ ~body.badJSON
    /\ \E u \in GetUserByEmail(body.email) :
          CheckPassword(body.password, u.hashed_password)
              = [match |-> TRUE, err |-> "nil"]

\* C9: a login adds exactly one refresh-token record, owned by the
\* authenticated user and not revoked, when the email exists and the password
\* matches, and then answers 200 with token and refresh_token; a login that
\* fails answers without tokens and leaves the store unchanged.
C9_LoginAddsOneRecord ==
    [][ Handling("POST /api/login") =>
          IF Authenticates(req')
          THEN /\ HasToken(resp') /\ HasRefreshToken(resp')
               /\ \E u \in GetUserByEmail(req'.email) :
                     refresh_tokens' \ refresh_tokens =
                         {[token |-> resp'.body.refresh_token, user_id |-> u.id,
                           expires_at |-> now + RefreshTokenLifetime,
                           revoked_at |-> NULL]}
               /\ refresh_tokens \subseteq refresh_tokens'
          ELSE /\ ~HasToken(resp')
               /\ refresh_tokens' = refresh_tokens ]_vars

\* What holds of the handler: the same, unless the insert of the record fails,
\* and then the answer is a bare 500 and the store is unchanged.
C9_LoginAddsOneRecordOrFails ==
    [][ Handling("POST /api/login") =>
          IF Authenticates(req') /\ resp' # Bare(500)
          THEN /\ HasToken(resp') /\ HasRefreshToken(resp')
               /\ \E u \in GetUserByEmail(req'.email) :
                     refresh_tokens' \ refresh_tokens =
                         {[token |-> resp'.body.refresh_token, user_id |-> u.id,
                           expires_at |-> now + RefreshTokenLifetime,
                           revoked_at |-> NULL]}
               /\ refresh_tokens \subseteq refresh_tokens'
          ELSE /\ ~HasToken(resp')
               /\ refresh_tokens' = refresh_tokens ]_vars

\* C10: no two stored refresh-token records share a token string, and a
\* successful login returns a token string that no stored record had: every
\* string returned earlier is still stored, since no step removes a record.
C10_TokenStringsUnique ==
    [][ /\ \A r1, r2 \in refresh_tokens' : r1.token = r2.token => r1 = r2
        /\ TokensOf(refresh_tokens) \subseteq TokensOf(refresh_tokens')
        /\ (Handling("POST /api/login") /\ HasRefreshToken(resp')) =>
              /\ resp'.body.refresh_token \notin TokensOf(refresh_tokens)
              /\ resp'.body.refresh_token \in TokensOf(refresh_tokens') ]_vars

\* Two logins of one user succeeded: the store holds two records of that user.
C10_Witness ==
    /\ IsLogin(req)
    /\ HasRefreshToken(resp)
    /\ \E r1, r2 \in refresh_tokens :
          r1 # r2 /\ r1.user_id = r2.user_id /\ r1.user_id = resp.body.id

----------------------------------------------------------------------------
(* Claims about revoke, checked under Spec *)

IsRevoke(r) == r.endpoint = "POST /api/revoke"

\* The request r is a revoke that presents the token string c.
RevokePresents(r, c) ==
    /\ IsRevoke(r)
    /\ GetBearerToken(r.authHeader) = [token |-> c, err |-> "nil"]

\* What a refresh that presents the token string c is answered in this state:
\* the handler from the point where GetBearerToken has returned c.
RefreshAnswer(c) == RefreshFound(GetRefreshToken(c)).resp

\* C11: a revoke of token t changes at most the record of t. It adds and
\* removes no record; every record of another token t' (of the same user or
\* not) is kept as it was, revoked_at and expires_at included; and a refresh
\* with t' is answered after the revoke as it would have been before it.
C11_RevokeFrame ==
    [][ Handling("POST /api/revoke") =>
          /\ TokensOf(refresh_tokens') = TokensOf(refresh_tokens)
          /\ \A r \in refresh_tokens :
                ~RevokePresents(req', r.token) =>
                    /\ r \in refresh_tokens'
                    /\ RefreshAnswer(r.token)' = RefreshAnswer(r.token) ]_vars

\* A user holds two tokens; the one presented to revoke is revoked now, the
\* other is not and still refreshes.
C11_Witness ==
    \E r1, r2 \in refresh_tokens :
        /\ r1.token # r2.token
        /\ r1.user_id = r2.user_id
        /\ RevokePresents(req, r1.token)
        /\ r1.revoked_at = At(now)
        /\ r2.revoked_at = NULL
        /\ RefreshAnswer(r2.token).status = 200

\* The record of the token string c, in the four cases of C12.
Live(c) ==
    \E r \in refresh_tokens :
        r.token = c /\ ~r.revoked_at.valid /\ now < r.expires_at
AlreadyRevoked(c) == \E r \in refresh_tokens : r.token = c /\ r.revoked_at.valid
Expired(c) == \E r \in refresh_tokens : r.token = c /\ r.expires_at <= now
Unknown(c) == \A r \in refresh_tokens : r.token # c

RevokedAgain(presented, t) == RevokeRefreshToken(presented, t)

\* The times at which the second revoke is tried.
LaterTimes == {now, now + 1, now + RefreshTokenLifetime}

\* C13: revoke is idempotent on the store. A revoke of a token that is
\* already revoked leaves its record (its revoked_at) as the first revoke set
\* it, and after any revoke a second revoke of the same token, at the same or
\* a later time, gives a store equal to the one after the first.
C13_RevokeIdempotent ==
    [][ (Handling("POST /api/revoke") /\ resp' = Bare(204)) =>
          \A h \in RefreshHeaders :
              req'.authHeader = h =>
                  \A presented \in {GetBearerToken(h).token} :
                      /\ \A r \in refresh_tokens :
                            (r.token = presented /\ r.revoked_at.valid)
                                => refresh_tokens' = refresh_tokens
                      /\ \A t \in LaterTimes :
                            RevokedAgain(presented, t)' = refresh_tokens' ]_vars

\* A revoke presented a token revoked at an earlier time: the record still
\* carries the time of the first revoke.
C13_Witness ==
    \E r \in refresh_tokens :
        /\ RevokePresents(req, r.token)
        /\ r.revoked_at.valid
        /\ r.revoked_at.time < now
        /\ resp = Bare(204)

----------------------------------------------------------------------------
(* Claims about GetBearerToken, checked under SpecHeader *)

\* The places of a header value that hold text, not white space.
TextAt(h) == {i \in 1..Len(h) : ~IsSpace(h[i])}

\* The header value is `Bearer`, white space, and one more run of text, with
\* any white space around them: its first text is the word Bearer, white
\* space follows it, and the rest of its text is one unbroken run.
BearerShaped(h) ==
    \E i \in TextAt(h) :
        LET rest == TextAt(h) \ {i}
        IN  /\ \A k \in TextAt(h) : i <= k
            /\ h[i] = Word("Bearer")
            /\ rest # {}
            /\ i + 1 \notin rest
            /\ \A a, b \in rest : \A k \in a..b : k \in rest

\* That run of text, as written.
SecondField(h) ==
    LET rest == TextAt(h) \ {CHOOSE i \in TextAt(h) : \A k \in TextAt(h) : i <= k}
        lo == CHOOSE a \in rest : \A k \in rest : a <= k
        hi == CHOOSE b \in rest : \A k \in rest : k <= b
    IN  Join(SubSeq(h, lo, hi))

----------------------------------------------------------------------------
(* Claims about the protected endpoints, checked under SpecAPI *)

IsChirps(r) == r.endpoint = "POST /api/chirps"
IsDeleteChirp(r) == r.endpoint = "DELETE /api/chirps/{id}"

IsPutUsers(r) == r.endpoint = "PUT /api/users"

\* A step of one of the three protected handlers.
ProtectedStep ==
    \/ Handling("POST /api/chirps")
    \/ Handling("PUT /api/users")
    \/ Handling("DELETE /api/chirps/{id}")

\* What Authenticate makes of a header now: the user id, or the error of the
\* sub-step that failed.
Authenticate(authHeader) ==
    LET bearer == GetBearerToken(authHeader)
    IN  IF bearer.err # "nil" THEN [userID |-> NilUUID, err |-> bearer.err]
        ELSE ValidateJWT(bearer.token, ServiceSecret, now)

\* The ways authentication fails.
HeaderAbsent(h) == h = <<>>
HeaderMisshapen(h) == h # <<>> /\ GetBearerToken(h).err # "nil"
BadSignature(h) == Authenticate(h).err = "signature is invalid"
TokenExpired(h) == Authenticate(h).err = "token is expired"
AuthFails(h) == Authenticate(h).err # "nil"

\* The 401 of an endpoint: no body (handlerChirps has set a content type).
Unauthorized(r) == IF IsChirps(r) THEN JSON(401, "") ELSE Bare(401)

C15_AuthenticatesFirst ==
    [][ (ProtectedStep /\ AuthFails(req'.authHeader)) =>
          /\ resp'.status = 401
          /\ users' = users
          /\ chirps' = chirps ]_vars

\* What holds of the handlers: the tables are left alone, and the answer is
\* 401 except to a POST /api/chirps whose body does not decode, which is
\* answered 500 before the Authorization header is looked at.
C15_AuthenticatesFirstButChirps ==
    [][ (ProtectedStep /\ AuthFails(req'.authHeader)) =>
          /\ users' = users
          /\ chirps' = chirps
          /\ IF IsChirps(req') /\ req'.badJSON
             THEN resp'.status = 500
             ELSE resp'.status = 401 ]_vars

\* C17: a chirp leaves the table only in a DELETE /api/chirps/{id} of that
\* chirp whose access token validates to the chirp's owner, a token a login
\* of the owner returned; and an authenticated DELETE of another user's chirp
\* is answered 403 and leaves the table as it was.
C17_DeleteOwnChirpOnly ==
    [][ /\ \A c \in chirps :
              c \notin chirps' =>
                  /\ handlerDeleteChirp
                  /\ req'.id = ChirpPath(c.id)
                  /\ Authenticate(req'.authHeader) = [userID |-> c.user_id, err |-> "nil"]
                  /\ GetBearerToken(req'.authHeader).token \in IssuedAccessTokens
                  /\ resp' = Bare(204)
        /\ \A c \in chirps :
              (/\ Handling("DELETE /api/chirps/{id}")
               /\ req'.id = ChirpPath(c.id)
               /\ ~AuthFails(req'.authHeader)
               /\ Authenticate(req'.authHeader).userID # c.user_id) =>
                  /\ resp' = Bare(403)
                  /\ chirps' = chirps ]_vars

\* A user with a valid token asked to delete another user's chirp, was
\* answered 403, and the chirp is still stored.
C17_Witness ==
    /\ IsDeleteChirp(req)
    /\ resp = Bare(403)
    /\ \E c \in chirps :
          /\ req.id = ChirpPath(c.id)
          /\ ~AuthFails(req.authHeader)
          /\ Authenticate(req.authHeader).userID # c.user_id

----------------------------------------------------------------------------
(* Claims about passwords and user objects, checked under SpecAccounts *)

AllPasswords == Passwords \cup {""}

\* What a login with this email and password is answered in this state, when
\* the random source gives the refresh-token string c.
LoginAnswer(email, password, c) == LoginOutcome(FALSE, email, password, c).resp.status

\* The step registered a user or updated one, with email and password of body.
SetsPassword(body) ==
    /\ ~body.badJSON
    /\ req'.email = body.email
    /\ req'.password = body.password
    /\ \/ Handling("POST /api/users") /\ resp'.status = 201
       \/ Handling("PUT /api/users") /\ resp'.status = 200

UserFields == {"id", "created_at", "updated_at", "email", "is_chirpy_red"}
LoginFields == UserFields \cup {"token", "refresh_token"}

\* C19: the user object of a response (registration 201, profile update 200,
\* login 200) has no field for the password hash: its fields are among id,
\* created_at, updated_at, email and is_chirpy_red, and for a login token and
\* refresh_token besides.
C19_NoHashInResponses ==
    (resp.status \in {200, 201}) =>
        /\ "hashed_password" \notin DOMAIN resp.body
        /\ IF IsLogin(req) THEN DOMAIN resp.body \subseteq LoginFields
           ELSE DOMAIN resp.body \subseteq UserFields

\* A profile update returned the user object of a user who has a stored hash.
C19_Witness ==
    /\ IsPutUsers(req)
    /\ resp.status = 200
    /\ \E u \in users :
          u.id = resp.body.id /\ u.hashed_password = HashPassword(req.password)

----------------------------------------------------------------------------
(* Claims about concurrent refresh and revoke, checked under SpecRace *)

\* The token a header presents (the empty word when it presents none).
Presented(authHeader) == GetBearerToken(authHeader).token

\* The life of a token's row: 0 not stored, 1 stored, 2 revoked. A row is
\* inserted unrevoked, revoked at most once, and never removed.
Stage(rows, c) ==
    IF \A r \in rows : r.token # c THEN 0
    ELSE IF \E r \in rows : r.token = c /\ ~r.revoked_at.valid THEN 1
    ELSE 2

\* The status handlerRefresh, run alone from start to end, writes for a
\* token whose row is at this stage.
SerialStatus(rows, c, stage) ==
    IF stage = 1 /\ \A r \in rows : r.token = c => ~(r.expires_at < now)
    THEN 200
    ELSE 401

\* The rows the store holds or has held: each row was unrevoked once.
RowVersions == refresh_tokens \cup {[r EXCEPT !.revoked_at = NULL] : r \in refresh_tokens}

\* Connection k's refresh writes its response in this step.
RefreshAnswered(k) ==
    /\ inflight[k].pc \in {"started", "fetched"}
    /\ inflight[k].handler = "refresh"
    /\ inflight'[k].pc = "responded"

\* C20: a refresh handled while revokes (and logins) are handled is answered
\* as it would be if it ran alone at some moment between its start and its
\* end: on the row of its token as it was before a concurrent revoke, or as
\* it is after. The row it acts on is a whole row the store has held. And a
\* refresh that started after a revoke of its token, stored when the revoke
\* arrived, was answered 204 is answered 401.
C20_RefreshSerializable ==
    [][ \A k \in Conns :
          RefreshAnswered(k) =>
              LET c == Presented(inflight[k].authHeader)
                  first == Stage(inflight[k].storeAtStart, c)
                  last == Stage(refresh_tokens, c)
              IN  /\ inflight'[k].resp.status \in
                        {SerialStatus(refresh_tokens, c, stage) : stage \in first..last}
                  /\ inflight[k].found \subseteq RowVersions
                  /\ inflight[k].ackedAtStart => inflight'[k].resp = Bare(401) ]_vars

\* A refresh and a revoke of one token were in flight together: the refresh
\* was answered 200, the revoke 204, and the token is revoked.
C20_Witness ==
    \E k1, k2 \in Conns :
        /\ inflight[k1].pc = "responded"
        /\ inflight[k2].pc = "responded"
        /\ inflight[k1].handler = "refresh"
        /\ inflight[k2].handler = "revoke"
        /\ inflight[k1].authHeader = inflight[k2].authHeader
        /\ k1 \in inflight[k2].openAtStart \/ k2 \in inflight[k1].openAtStart
        /\ inflight[k1].resp.status = 200
        /\ inflight[k2].resp = Bare(204)
        /\ \E r \in refresh_tokens :
              r.revoked_at.valid /\ Bearer(r.token) = inflight[k1].authHeader


----------------------------------------------------------------------------
(* Claims about ValidateJWT over signed tokens, checked under SpecSigner *)

\* The last ValidateJWT call was given the signed token.
ValidatedSigned == tkn # NoToken /\ vres # NoCall

\* C22: ValidateJWT rejects every token whose signing method is not the HS256
\* of MakeJWT, even when its MAC is the right one of its own method under the
\* secret it is verified with, and rejects every correctly signed token whose
\* subject is not a well-formed user id.
C22_OnlyHS256AndUserIDSubject ==
    ValidatedSigned =>
        /\ (tkn.alg # "HS256" => Rejected)
        /\ (UUIDParse(tkn.sub).err # "nil" => Rejected)

\* The half of C22 about the subject alone.
C22_SubjectMustBeUserID ==
    (ValidatedSigned /\ UUIDParse(tkn.sub).err # "nil") => Rejected

\* An HS384 token signed with the verifying secret was accepted before its
\* expiry, as the user of its subject.
C22_HS384Accepted ==
    /\ ValidatedSigned
    /\ tkn.alg = "HS384"
    /\ vres.secret = tkn.secret
    /\ \E u \in UserIDs : Accepted(u) /\ tkn.sub = UUIDString(u)


----------------------------------------------------------------------------
(* Claims about posted chirps, checked under SpecChirps *)

\* C26: a chirp that POST /api/chirps stores is owned by the user the access
\* token of the request validates to, whatever user_id the request body names.
C26_OwnerFromToken ==
    [][ Handling("POST /api/chirps") =>
          /\ chirps \subseteq chirps'
          /\ \A c \in chirps' \ chirps :
                Authenticate(req'.authHeader) = [userID |-> c.user_id, err |-> "nil"] ]_vars

\* A chirp was posted with the other user's id in its body: it is stored as
\* the chirp of the token's user.
C26_Witness ==
    /\ IsChirps(req)
    /\ resp.status = 201
    /\ req.user_id \in UserIDs
    /\ req.user_id # Authenticate(req.authHeader).userID
    /\ \E c \in chirps :
          c.id = resp.body.id /\ c.user_id = Authenticate(req.authHeader).userID

\* The spellings of the three words, in the letter cases posted.
BadSpellings == {"kerfuffle", "Kerfuffle", "SHARBERT", "Fornax"}

\* The text has one of the three words between white space.
HasBadWord(text) == \E i \in 1..Len(text) : text[i] \in BadSpellings

\* The bytes of a text: those of its words and of the white space between.
Bytes(text) ==
    LET RECURSIVE sum(_)
        sum(i) == IF i = 0 THEN 0 ELSE sum(i - 1) + ByteLen(text[i])
    IN  sum(Len(text))

\* C28: every stored chirp has at most 140 bytes and none of the three words
\* as a word of its own, in any letter case. An authenticated POST /api/chirps
\* is answered 400 for a longer body, 403 for a body (not longer) with such a
\* word, and neither stores anything.
C28_StoredChirpsClean ==
    [][ /\ \A c \in chirps' : Bytes(c.body) <= 140 /\ ~HasBadWord(c.body)
        /\ (Handling("POST /api/chirps") /\ ~req'.badJSON /\ ~AuthFails(req'.authHeader)) =>
              /\ Bytes(req'.body) > 140 => (resp'.status = 400 /\ chirps' = chirps)
              /\ (Bytes(req'.body) <= 140 /\ HasBadWord(req'.body)) =>
                    (resp'.status = 403 /\ chirps' = chirps) ]_vars

\* A text of exactly 140 bytes is stored, and the last request, with a bad
\* word in capitals after a tab, was answered 403.
C28_Witness ==
    /\ \E c \in chirps : Bytes(c.body) = 140
    /\ IsChirps(req)
    /\ req.body = <<"hello", "\t", "SHARBERT">>
    /\ resp.status = 403


----------------------------------------------------------------------------
(* Claims about the profile update, checked under SpecAccounts *)

\* C27: PUT /api/users writes to the record of the user its access token
\* validates to, and to no other. Answered 200, that record carries the
\* email and the hash of the password of the request and is otherwise as it
\* was; every other record is as it was; no record is added or removed; and
\* a request that is not authenticated, or not answered 200, changes nothing.
C27_UpdatesTokenSubjectOnly ==
    [][ Handling("PUT /api/users") =>
          \A subject \in {Authenticate(req'.authHeader)} :
              /\ (subject.err # "nil" \/ resp'.status # 200) => users' = users
              /\ {u.id : u \in users'} = {u.id : u \in users}
              /\ \A u \in users : u.id # subject.userID => u \in users'
              /\ resp'.status = 200 =>
                    \E u \in users :
                        /\ u.id = subject.userID
                        /\ [u EXCEPT !.email = req'.email,
                                      !.hashed_password = HashPassword(req'.password)]
                               \in users' ]_vars

\* A user changed both email and password while another user is stored, with
\* another password hash.
C27_Witness ==
    /\ IsPutUsers(req)
    /\ resp.status = 200
    /\ \E u, o \in users :
          /\ u.id = Authenticate(req.authHeader).userID
          /\ u.email = req.email
          /\ u.hashed_password = HashPassword(req.password)
          /\ o.id # u.id
          /\ o.hashed_password # u.hashed_password
          /\ o.email # req.email


----------------------------------------------------------------------------
(* Claims about the two kinds of token, checked under SpecKinds *)

\* The kind of a token string: what MakeRefreshToken returns, what MakeJWT
\* returns.
IsRefreshString(c) == "hex" \in DOMAIN c
IsAccessString(c) == "claims" \in DOMAIN c

\* The credential of the request just handled.
Credential == GetBearerToken(req'.authHeader).token

\* What C25 says of every step but a protected endpoint given a refresh
\* token: an access token gets no new access token from refresh (401), and
\* changes no record through revoke.
AccessTokenIsNoRefreshToken ==
    /\ (Handling("POST /api/refresh") /\ IsAccessString(Credential)) =>
          (resp' = Bare(401) /\ refresh_tokens' = refresh_tokens)
    /\ (Handling("POST /api/revoke") /\ IsAccessString(Credential)) =>
          refresh_tokens' = refresh_tokens

----------------------------------------------------------------------------
(* Claims about reset, checked under SpecAdmin *)

IsReset(r) == r.endpoint = "POST /admin/reset"

\* C23: a user record leaves the table only in a POST /admin/reset on a dev
\* server; on any other platform reset answers 403 and changes neither the
\* users table nor the hit counter; every other endpoint keeps every user
\* record (under its id), whatever else it changes in it.
C23_UsersRemovedOnlyByDevReset ==
    [][ /\ \A u \in users :
              \/ \E v \in users' : v.id = u.id
              \/ /\ Handling("POST /admin/reset")
                 /\ apiConfig.platform = "dev"
                 /\ resp' = Bare(200)
        /\ (Handling("POST /admin/reset") /\ apiConfig.platform # "dev") =>
              /\ resp' = Bare(403)
              /\ users' = users
              /\ apiConfig' = apiConfig ]_vars

\* A server that is not dev refused a reset while it had users and had
\* counted a hit.
C23_Witness ==
    /\ IsReset(req)
    /\ resp = Bare(403)
    /\ apiConfig.platform # "dev"
    /\ users # {}
    /\ apiConfig.fileserverHits > 0


----------------------------------------------------------------------------
(* Claims about the hit counter, checked under SpecHits *)

\* The reset on connection k answers in this step.
ResetAnswers(k) ==
    /\ inflight[k].pc = "started"
    /\ inflight[k].handler = "reset"
    /\ inflight'[k].pc = "responded"

\* C24: however the steps of concurrent requests interleave, the counter is
\* the number of /app/ requests counted since the last reset that succeeded
\* (each request raises it by one, none is lost) and the metrics page shows
\* that number; a reset that succeeds (200) leaves it 0; a reset that fails
\* (403 off dev, 500 when the DELETE fails) leaves it as it was.
C24_NoHitLost ==
    [][ /\ apiConfig'.fileserverHits = appRequests'
        /\ (Handling("GET /admin/metrics") /\ inflight' = inflight) =>
              resp'.body.visited = appRequests
        /\ \A k \in Conns :
              ResetAnswers(k) =>
                  IF inflight'[k].resp = Bare(200)
                  THEN apiConfig'.fileserverHits = 0
                  ELSE /\ inflight'[k].resp \in
                             {IF apiConfig.platform = "dev" THEN Bare(500) ELSE Bare(403)}
                       /\ apiConfig' = apiConfig ]_vars

\* Two /app/ requests are being handled at once, each past its Add and
\* neither served yet, and the counter shows both.
C24_Witness ==
    /\ \A k \in Conns :
          /\ inflight[k].pc = "started"
          /\ inflight[k].handler = "app"
          /\ inflight[k].done = 1
    /\ apiConfig.fileserverHits = 2
    /\ users # {}


----------------------------------------------------------------------------
(* Claims about a kept access token, checked under SpecSession *)

\* What ValidateJWT makes of the kept token now.
Validated == ValidateJWT(tkn.str, ServiceSecret, now)

\* The kept token is presented to POST /api/chirps with a body that decodes.
ChirpsPresentsKept ==
    /\ Handling("POST /api/chirps")
    /\ req'.authHeader = Bearer(tkn.str)
    /\ ~req'.badJSON

\* C21: what validating a kept access token gives depends on the token, the
\* secret and the clock alone: no step that leaves the clock leaves another
\* outcome (a revocation of its refresh token, an email and password update,
\* a reset that deletes every user), a token that validates keeps validating
\* to the user it was made for while the clock is before its expiry, and
\* POST /api/chirps refuses it with 401 exactly from its expiry on.
C21_ValidationIgnoresStore ==
    [][ (tkn.made /\ tkn' = tkn) =>
            /\ now' = now => Validated' = Validated
            /\ (Validated.err = "nil" /\ now' < tkn.str.claims.exp) =>
                   Validated' = [userID |-> tkn.userID, err |-> "nil"]
            /\ ChirpsPresentsKept =>
                   (resp'.status = 401 <=> ~(now < tkn.str.claims.exp)) ]_vars

\* After a reset has deleted every user and every refresh token, the kept
\* token still validates to its user.
C21_Witness ==
    /\ tkn.made
    /\ users = {}
    /\ refresh_tokens = {}
    /\ req.endpoint = "POST /admin/reset"
    /\ resp.status = 200
    /\ Validated = [userID |-> tkn.userID, err |-> "nil"]

====
